---- MODULE Spec2Model ----
(***************************************************************************)
(* A model of extraterm's CanvasTextLayer                                  *)
(* (packages/extraterm-ace-terminal-renderer/src/CanvasTextLayer.ts): the  *)
(* text layer that owns one WebGL render canvas, re-creates it when its    *)
(* settings change or it is too small, and paints the visible document     *)
(* rows into it.                                                           *)
(*                                                                         *)
(* The layer, the DOM/backend it drives and a record of the call that has  *)
(* just ended are three variables.  Each public method is an operator      *)
(* from a machine record m = [layer, env, call] to the machine record      *)
(* after the method has returned (or thrown); an action applies one        *)
(* method, whole, and Return hands control back to the editor.             *)
(*                                                                         *)
(* Parts of the program that run on their own have a variable and a        *)
(* specification each: the row resolver (resolver), the pixel scaler       *)
(* (scaler), _writeLinesToGrid on the cells of a grid (compositor), the    *)
(* terminal's key bindings (keybindings, KeyBindingsManager.ts), the       *)
(* custom element decorators (element) and the pop down list picker        *)
(* (picker, PopDownListPicker.ts).                                         *)
(***************************************************************************)
EXTENDS Integers, Sequences, FiniteSets, TLC

VARIABLES layer, env, call, resolver, scaler, compositor, keybindings, element,
          picker

vars ==
  <<layer, env, call, resolver, scaler, compositor, keybindings, element,
    picker>>

----------------------------------------------------------------------------
(* Bounds of the model. *)

\* Render canvases a behaviour allocates.
MaxSurfaces == 2
\* Document rows a LayerConfig may name are 0..MaxRow.
MaxRow == 1
\* Settings that differ from the constructor's options at any one time.
MaxVaried == 1
\* The row resolver alone: rows a LayerConfig may name are 0..MaxResolverRow
\* and fold lines lie in 0..MaxResolverRow + 1, at most MaxFolds of them.
MaxResolverRow == 5
MaxFolds == 2
\* The pixel scaler alone: lengths are 1..MaxScalerLength, 100 and 1000, and a
\* device pixel ratio is a fraction of two numbers in 1..MaxRatioTerm.
MaxScalerLength == 12
MaxRatioTerm == 8
\* The compositor alone: the cell grid is 1..MaxGridWidth cells wide.
MaxGridWidth == 2
\* The key bindings alone: a keybindings file binds at most MaxBindings key
\* strokes.
MaxBindings == 2
\* The decorated element alone: at most MaxFilters filter methods are
\* registered for its attribute.
MaxFilters == 2
\* The list picker alone: at most MaxSelections 'selected' events are
\* dispatched.
MaxSelections == 2

----------------------------------------------------------------------------
(* Values. *)

\* null, and a present value, of a nullable field.
Null == <<>>
Some(x) == <<x>>
Get(o) == o[1]

\* A number that need not be an integer: n / d, d > 0.
Rat(n, d) == [n |-> n, d |-> d]

RECURSIVE GCD(_, _)
GCD(a, b) == IF b = 0 THEN a ELSE GCD(b, a % b)

\* n / d in lowest terms: equal numbers get equal records.
Norm(r) == LET g == GCD(r.n, r.d) IN [n |-> r.n \div g, d |-> r.d \div g]

\* x * r for an integer x.
Times(x, r) == Norm([n |-> x * r.n, d |-> r.d])

\* Math.ceil and Math.round (halves round up) of a non-negative number.
Ceil(r) == (r.n + r.d - 1) \div r.d
Round(r) == (2 * r.n + r.d) \div (2 * r.d)

Min(a, b) == IF a <= b THEN a ELSE b

Max(a, b) == IF a >= b THEN a ELSE b
Abs(a) == IF a >= 0 THEN a ELSE 0 - a

PROVISION_HEIGHT_FACTOR == Rat(3, 2)

----------------------------------------------------------------------------
(* The inputs the environment supplies. *)

FontFamilies == {"mono", "serif"}
FontSizes == {12, 40}
DevicePixelRatios == {Rat(1, 1), Rat(3, 2)}
Palettes == {"fallback", "dark"}
CursorStyles == {"BLOCK", "UNDERLINE"}
\* null is a legal ligature marker.
LigatureMarkers == {Null, Some("ligatures")}

\* Row heights in CSS pixels: 13.5 and 30.
CharHeights == {Rat(27, 2), Rat(30, 1)}
ViewPortWidths == {80, 100}

LayerConfigs ==
  { [firstRow |-> f, lastRow |-> l, charHeightPx |-> h] :
      f \in 0..MaxRow, l \in 0..MaxRow, h \in CharHeights }

\* The editor hands the layer configs with firstRow <= lastRow.
Configs == { c \in LayerConfigs : c.firstRow <= c.lastRow }

ViewPortSizes == { [widthPx |-> w] : w \in ViewPortWidths }

----------------------------------------------------------------------------
(* The edit session: the document's lines and its fold lines. *)

\* A TerminalLine: links[c + 1] is the link id of the cell in column c (0:
\* no link), urls[id] the URL of link id.
LineA == [links |-> <<0, 1>>, urls |-> <<"http://a">>]
LineB == [links |-> <<2, 0, 2>>, urls |-> <<"http://b", "http://a">>]
LineC == [links |-> <<1>>, urls |-> <<"http://a">>]

\* lines[r + 1] is document row r; rows past the end have no line.  folds
\* is the session's fold data: disjoint row ranges in increasing order.
Sessions ==
  { [lines |-> <<LineB, LineA>>, folds |-> <<[start |-> 0, end |-> 1]>>] }

\* { row, column }: the rows of the document and the one past its end; a
\* column that has a link on one line and none on the other, and a column
\* that has a link on one line and is past the end of the other.
Positions == { [row |-> r, column |-> c] : r \in 0..2, c \in {1, 2} }

lineWidth(line) == Len(line.links)

\* TerminalCanvasEditSession.getTerminalLine(row): the row's line or null.
getTerminalLine(session, row) ==
  IF row + 1 \in DOMAIN session.lines THEN Some(session.lines[row + 1]) ELSE Null

\* TerminalLine.getLinkID(x, 0).
getLinkID(line, column) == line.links[column + 1]

\* TerminalLine.getLinkURLByID(id): the URL, or null for an unknown id.
getLinkURLByID(line, linkID) ==
  IF linkID \in DOMAIN line.urls THEN Some(line.urls[linkID]) ELSE Null

\* TerminalLine.getLinkIDByURL(url): the id the line gives the URL, or 0.
getLinkIDByURL(line, url) ==
  IF \E id \in DOMAIN line.urls : line.urls[id] = url
    THEN CHOOSE id \in DOMAIN line.urls : line.urls[id] = url
    ELSE 0

\* EditSession.getNextFoldLine(docRow, startFoldLine): the first fold line,
\* searching from startFoldLine (0: from the first), that ends at or after
\* docRow; the result is the fold's index in the fold data, 0 for null.
getNextFoldLine(session, docRow, startFoldLine) ==
  LET from == IF startFoldLine = 0 THEN 1 ELSE startFoldLine
      hits == { i \in from..Len(session.folds) : session.folds[i].end >= docRow }
  IN IF hits = {} THEN 0 ELSE CHOOSE i \in hits : \A j \in hits : i <= j

\* The loop of _getVisibleRows, from the top of one iteration.
RECURSIVE visibleRowsLoop(_, _, _, _, _)
visibleRowsLoop(session, lastRow, row, foldLine, visibleRows) ==
  LET jump == foldLine # 0 /\ row > session.folds[foldLine].start
      row1 == IF jump THEN session.folds[foldLine].end + 1 ELSE row
      foldLine1 == IF jump THEN getNextFoldLine(session, row1, foldLine) ELSE foldLine
      pushed == Append(visibleRows, row1)
  IN IF row1 > lastRow
       THEN pushed
       ELSE visibleRowsLoop(session, lastRow, row1 + 1, foldLine1, pushed)

getVisibleRows(session, config) ==
  visibleRowsLoop(session, config.lastRow, config.firstRow,
                  getNextFoldLine(session, config.firstRow, 0), <<>>)

\* _getVisibleRows one iteration at a time.  resolverStart is the call at
\* the top of its loop, resolverIterate one pass of the loop: pc is "done"
\* once the loop has reached its break.
resolverStart(session, config) ==
  [session |-> session, config |-> config, row |-> config.firstRow,
   foldLine |-> getNextFoldLine(session, config.firstRow, 0),
   visibleRows |-> <<>>, pc |-> "loop"]

\* A loop that stops at the last row.
resolverIterate_exact(r) ==
  LET jump == r.foldLine # 0 /\ r.row > r.session.folds[r.foldLine].start
      row1 == IF jump THEN r.session.folds[r.foldLine].end + 1 ELSE r.row
      foldLine1 == IF jump THEN getNextFoldLine(r.session, row1, r.foldLine)
                           ELSE r.foldLine
      stop == row1 >= r.config.lastRow
  IN [r EXCEPT !.row = IF stop THEN row1 ELSE row1 + 1,
               !.foldLine = foldLine1,
               !.visibleRows = Append(@, row1),
               !.pc = IF stop THEN "done" ELSE "loop"]

\* A loop that resumes on the last row of the fold.
resolverIterate_inclusive(r) ==
  LET jump == r.foldLine # 0 /\ r.row > r.session.folds[r.foldLine].start
      row1 == IF jump THEN r.session.folds[r.foldLine].end ELSE r.row
      foldLine1 == IF jump THEN getNextFoldLine(r.session, row1, r.foldLine)
                           ELSE r.foldLine
      stop == row1 > r.config.lastRow
  IN [r EXCEPT !.row = IF stop THEN row1 ELSE row1 + 1,
               !.foldLine = foldLine1,
               !.visibleRows = Append(@, row1),
               !.pc = IF stop THEN "done" ELSE "loop"]

\* A loop that skips no fold.
resolverIterate_nojump(r) ==
  LET jump == FALSE
      row1 == IF jump THEN r.session.folds[r.foldLine].end + 1 ELSE r.row
      foldLine1 == IF jump THEN getNextFoldLine(r.session, row1, r.foldLine)
                           ELSE r.foldLine
      stop == row1 > r.config.lastRow
  IN [r EXCEPT !.row = IF stop THEN row1 ELSE row1 + 1,
               !.foldLine = foldLine1,
               !.visibleRows = Append(@, row1),
               !.pc = IF stop THEN "done" ELSE "loop"]

\* A loop that resumes on the first row of the fold.
resolverIterate_restart(r) ==
  LET jump == r.foldLine # 0 /\ r.row > r.session.folds[r.foldLine].start
      row1 == IF jump THEN r.session.folds[r.foldLine].start ELSE r.row
      foldLine1 == IF jump THEN getNextFoldLine(r.session, row1, r.foldLine)
                           ELSE r.foldLine
      stop == row1 > r.config.lastRow
  IN [r EXCEPT !.row = IF stop THEN row1 ELSE row1 + 1,
               !.foldLine = foldLine1,
               !.visibleRows = Append(@, row1),
               !.pc = IF stop THEN "done" ELSE "loop"]

\* A loop that pushes the row after a fold twice.
resolverIterate_twice(r) ==
  LET jump == r.foldLine # 0 /\ r.row > r.session.folds[r.foldLine].start
      row1 == IF jump THEN r.session.folds[r.foldLine].end + 1 ELSE r.row
      foldLine1 == IF jump THEN getNextFoldLine(r.session, row1, r.foldLine)
                           ELSE r.foldLine
      stop == row1 > r.config.lastRow
  IN [r EXCEPT !.row = IF stop THEN row1 ELSE row1 + 1,
               !.foldLine = foldLine1,
               !.visibleRows = IF jump THEN Append(Append(@, row1), row1)
                                       ELSE Append(@, row1),
               !.pc = IF stop THEN "done" ELSE "loop"]

resolverIterate(r) ==
  LET jump == r.foldLine # 0 /\ r.row > r.session.folds[r.foldLine].start
      row1 == IF jump THEN r.session.folds[r.foldLine].end + 1 ELSE r.row
      foldLine1 == IF jump THEN getNextFoldLine(r.session, row1, r.foldLine)
                           ELSE r.foldLine
      stop == row1 > r.config.lastRow
  IN [r EXCEPT !.row = IF stop THEN row1 ELSE row1 + 1,
               !.foldLine = foldLine1,
               !.visibleRows = Append(@, row1),
               !.pc = IF stop THEN "done" ELSE "loop"]

\* No call of _getVisibleRows is being followed.
NoResolver ==
  [session |-> [lines |-> <<>>, folds |-> <<>>],
   config |-> [firstRow |-> 0, lastRow |-> 0, charHeightPx |-> Rat(1, 1)],
   row |-> 0, foldLine |-> 0, visibleRows |-> <<>>, pc |-> "idle"]

\* The fold lines a session may have, and its fold data: fold lines in
\* increasing order that share no row.
FoldLines ==
  { f \in [start : 0..MaxResolverRow + 1, end : 0..MaxResolverRow + 1] :
      f.start <= f.end }

FoldData ==
  { folds \in UNION { [1..n -> FoldLines] : n \in 0..MaxFolds } :
      \A i \in 1..Len(folds) - 1 : folds[i].end < folds[i + 1].start }

ResolverConfigs ==
  { c \in [firstRow : 0..MaxResolverRow, lastRow : 0..MaxResolverRow,
           charHeightPx : {Rat(1, 1)}] : c.firstRow <= c.lastRow }

----------------------------------------------------------------------------
(* The render canvas (WebGLCharRenderCanvas) as the layer uses it. *)

\* ratioToFraction(ratio): [renderMultiple, screenMultiple], the ratio as a
\* fraction in lowest terms.
ratioToFraction(ratio) == LET f == Norm(ratio) IN <<f.n, f.d>>

\* A _computeDevicePixelRatioPair that rounds the screen length down.
computeDevicePixelRatioPair_floor(devicePixelRatio, length) ==
  IF devicePixelRatio.n = devicePixelRatio.d
    THEN [screenLength |-> length, renderLength |-> length]
    ELSE LET renderMultiple == ratioToFraction(devicePixelRatio)[1]
             screenMultiple == ratioToFraction(devicePixelRatio)[2]
             screenLength == (length \div screenMultiple) * screenMultiple
         IN [screenLength |-> screenLength,
             renderLength |-> (screenLength \div screenMultiple) * renderMultiple]

\* A _computeDevicePixelRatioPair that always takes the next multiple.
computeDevicePixelRatioPair_pad(devicePixelRatio, length) ==
  IF devicePixelRatio.n = devicePixelRatio.d
    THEN [screenLength |-> length, renderLength |-> length]
    ELSE LET renderMultiple == ratioToFraction(devicePixelRatio)[1]
             screenMultiple == ratioToFraction(devicePixelRatio)[2]
             screenLength == (length \div screenMultiple + 1) * screenMultiple
         IN [screenLength |-> screenLength,
             renderLength |-> (screenLength \div screenMultiple) * renderMultiple]

computeDevicePixelRatioPair(devicePixelRatio, length) ==
  IF devicePixelRatio.n = devicePixelRatio.d
    THEN [screenLength |-> length, renderLength |-> length]
    ELSE LET renderMultiple == ratioToFraction(devicePixelRatio)[1]
             screenMultiple == ratioToFraction(devicePixelRatio)[2]
             screenLength == Ceil(Rat(length, screenMultiple)) * screenMultiple
         IN [screenLength |-> screenLength,
             renderLength |-> (screenLength \div screenMultiple) * renderMultiple]

\* One call of the scaler: the arguments, and the pair once it has returned.
scalerStart(devicePixelRatio, length) ==
  [devicePixelRatio |-> devicePixelRatio, length |-> length, pc |-> "call",
   pair |-> Null]

NoScaler == [scalerStart(Rat(1, 1), 1) EXCEPT !.pc = "none"]

\* The device pixel ratios, each a number written in lowest terms, and the
\* lengths the scaler is called with.
ScalerRatios == { Norm(Rat(n, d)) : n \in 1..MaxRatioTerm, d \in 1..MaxRatioTerm }
ScalerLengths == (1..MaxScalerLength) \cup {100, 1000}

\* The height in pixels of one character cell of a canvas: the font's size.
cellHeightPx(canvas) == Ceil(canvas.fontSizePx)

\* getCellGrid().height: the rows of cells that fit the canvas.
gridHeight(canvas) == canvas.heightPx \div cellHeightPx(canvas)

\* The call has reached the statement that calls name.
step(m, name) == [m EXCEPT !.call.steps = Append(@, name)]

\* WebGLCharRenderCanvas.render(): one flush of the grid to pixels.
render(m) ==
  [m EXCEPT !.call.renders = @ + 1, !.call.steps = Append(@, "render")]

\* WebGLCharRenderCanvas.scrollVertical(rows).
scrollVertical(m, rows) ==
  [m EXCEPT !.call.scrolls = Append(@, rows),
            !.call.steps = Append(@, "scrollVertical")]

----------------------------------------------------------------------------
(* The private methods of CanvasTextLayer. *)

canvasOf(m) == Get(m.layer.charRenderCanvas)

\* A _deleteCanvasElement that drops the reference and disposes nothing.
deleteCanvasElement_forget(m) ==
  [m EXCEPT !.layer.charRenderCanvas = Null]

\* WebGLCharRenderCanvas.dispose() on canvas id: its resources are released.
\* faults records a dispose() of a canvas still in the page ("attached") and
\* a dispose() of a canvas that is not live ("dead").
dispose(m, id) ==
  [m EXCEPT !.env.faults = @ \cup (IF id \in m.env.children THEN {"attached"} ELSE {})
                             \cup (IF id \notin m.env.live THEN {"dead"} ELSE {}),
            !.env.live = @ \ {id},
            !.env.disposed = @ + 1,
            !.call.disposed = @ + 1]

\* A _deleteCanvasElement that disposes the canvas before it detaches it.
deleteCanvasElement_disposefirst(m) ==
  IF m.layer.charRenderCanvas = Null
    THEN m
    ELSE LET id == canvasOf(m).id
             disposed == dispose(m, id)
             detached == [disposed EXCEPT !.env.children = @ \ {id}]
         IN [detached EXCEPT !.layer.charRenderCanvas = Null]

\* A _deleteCanvasElement that disposes the canvas it holds twice.
deleteCanvasElement_twice(m) ==
  IF m.layer.charRenderCanvas = Null
    THEN m
    ELSE LET id == canvasOf(m).id
             detached == [m EXCEPT !.env.children = @ \ {id}]
             disposed == dispose(dispose(detached, id), id)
         IN [disposed EXCEPT !.layer.charRenderCanvas = Null]

deleteCanvasElement(m) ==
  IF m.layer.charRenderCanvas = Null
    THEN m
    ELSE LET id == canvasOf(m).id
             detached == [m EXCEPT !.env.children = @ \ {id}]
             disposed == dispose(detached, id)
         IN [disposed EXCEPT !.layer.charRenderCanvas = Null]

setupClipping(m, rawWidthPx, rawHeightPx) ==
  [m EXCEPT !.env.clipStyle = Some([width |-> rawWidthPx, height |-> rawHeightPx])]

createCanvas(m, rawWidthPx, rawHeightPx) ==
  LET widthPxPair == computeDevicePixelRatioPair(m.layer.devicePixelRatio, rawWidthPx)
      heightPxPair == computeDevicePixelRatioPair(m.layer.devicePixelRatio, rawHeightPx)
      id == m.env.created + 1
      canvas ==
        [id |-> id,
         fontFamily |-> m.layer.fontFamily,
         fontSizePx |-> Times(m.layer.fontSizePx, m.layer.devicePixelRatio),
         palette |-> m.layer.palette,
         widthPx |-> widthPxPair.renderLength,
         heightPx |-> heightPxPair.renderLength,
         usableWidthPx |-> Times(rawWidthPx, m.layer.devicePixelRatio),
         usableHeightPx |-> Times(rawHeightPx, m.layer.devicePixelRatio),
         cursorStyle |-> m.layer.cursorStyle,
         transparentBackground |-> m.layer.transparentBackground,
         styleWidth |-> widthPxPair.screenLength,
         styleHeight |-> heightPxPair.screenLength,
         grid |-> <<>>]
  IN [m EXCEPT !.layer.canvasWidthCssPx = rawWidthPx,
               !.layer.canvasHeightCssPx = rawHeightPx,
               !.layer.charRenderCanvas = Some(canvas),
               !.env.created = id,
               !.env.live = @ \cup {id},
               !.env.peak = Max(@, Cardinality(m.env.live \cup {id})),
               !.env.children = @ \cup {id},
               !.call.created = @ + 1]

\* An allocation that clips to the height it allocates.
allocateCanvas_unclipped(m, config, rawCanvasWidthPx, rawCanvasHeightPx, numOfVisibleRows) ==
  LET provisionCanvasHeight ==
        Ceil(Times(Round(Times(numOfVisibleRows, PROVISION_HEIGHT_FACTOR)) + 1,
                   config.charHeightPx))
      allocRawCanvasWidthPx == Max(rawCanvasWidthPx, m.layer.currentCanvasRawWidthPx)
      m1 == [m EXCEPT !.layer.currentCanvasRawWidthPx = allocRawCanvasWidthPx]
      m2 == createCanvas(m1, allocRawCanvasWidthPx, provisionCanvasHeight)
  IN setupClipping(m2, allocRawCanvasWidthPx, provisionCanvasHeight)

\* An allocation that rounds the over-provisioned row count down.
allocateCanvas_floor(m, config, rawCanvasWidthPx, rawCanvasHeightPx, numOfVisibleRows) ==
  LET provisionCanvasHeight ==
        Ceil(Times((numOfVisibleRows * PROVISION_HEIGHT_FACTOR.n)
                      \div PROVISION_HEIGHT_FACTOR.d + 1,
                   config.charHeightPx))
      allocRawCanvasWidthPx == Max(rawCanvasWidthPx, m.layer.currentCanvasRawWidthPx)
      m1 == [m EXCEPT !.layer.currentCanvasRawWidthPx = allocRawCanvasWidthPx]
      m2 == createCanvas(m1, allocRawCanvasWidthPx, provisionCanvasHeight)
  IN setupClipping(m2, allocRawCanvasWidthPx, rawCanvasHeightPx)

\* An allocation as wide as the viewport and no wider.
allocateCanvas_narrow(m, config, rawCanvasWidthPx, rawCanvasHeightPx, numOfVisibleRows) ==
  LET provisionCanvasHeight ==
        Ceil(Times(Round(Times(numOfVisibleRows, PROVISION_HEIGHT_FACTOR)) + 1,
                   config.charHeightPx))
      m1 == [m EXCEPT !.layer.currentCanvasRawWidthPx = rawCanvasWidthPx]
      m2 == createCanvas(m1, rawCanvasWidthPx, provisionCanvasHeight)
  IN setupClipping(m2, rawCanvasWidthPx, rawCanvasHeightPx)

\* The second half of _setUpRenderCanvas: over-provision and allocate.
allocateCanvas(m, config, rawCanvasWidthPx, rawCanvasHeightPx, numOfVisibleRows) ==
  LET provisionCanvasHeight ==
        Ceil(Times(Round(Times(numOfVisibleRows, PROVISION_HEIGHT_FACTOR)) + 1,
                   config.charHeightPx))
      allocRawCanvasWidthPx == Max(rawCanvasWidthPx, m.layer.currentCanvasRawWidthPx)
      m1 == [m EXCEPT !.layer.currentCanvasRawWidthPx = allocRawCanvasWidthPx]
      m2 == createCanvas(m1, allocRawCanvasWidthPx, provisionCanvasHeight)
  IN setupClipping(m2, allocRawCanvasWidthPx, rawCanvasHeightPx)

\* A _setUpRenderCanvas that allocates a canvas for every update.
setUpRenderCanvas_fresh(m, config, viewPortSize, numOfVisibleRows) ==
  LET rawCanvasWidthPx == viewPortSize.widthPx
      rawCanvasHeightPx == Ceil(Times(numOfVisibleRows, config.charHeightPx))
  IN allocateCanvas(deleteCanvasElement(m), config, rawCanvasWidthPx,
                    rawCanvasHeightPx, numOfVisibleRows)

\* A _setUpRenderCanvas that reuses any canvas that is wide enough.
setUpRenderCanvas_widthonly(m, config, viewPortSize, numOfVisibleRows) ==
  LET rawCanvasWidthPx == viewPortSize.widthPx
      rawCanvasHeightPx == Ceil(Times(numOfVisibleRows, config.charHeightPx))
      clipped == setupClipping(m, m.layer.currentCanvasRawWidthPx, rawCanvasHeightPx)
  IN IF m.layer.charRenderCanvas # Null
       THEN IF m.layer.canvasWidthCssPx >= rawCanvasWidthPx
              THEN clipped
              ELSE allocateCanvas(deleteCanvasElement(clipped), config,
                                  rawCanvasWidthPx, rawCanvasHeightPx, numOfVisibleRows)
       ELSE allocateCanvas(m, config, rawCanvasWidthPx, rawCanvasHeightPx,
                           numOfVisibleRows)

\* A _setUpRenderCanvas that reuses the canvas only when it is larger than
\* required.
setUpRenderCanvas_strict(m, config, viewPortSize, numOfVisibleRows) ==
  LET rawCanvasWidthPx == viewPortSize.widthPx
      rawCanvasHeightPx == Ceil(Times(numOfVisibleRows, config.charHeightPx))
      clipped == setupClipping(m, m.layer.currentCanvasRawWidthPx, rawCanvasHeightPx)
  IN IF m.layer.charRenderCanvas # Null
       THEN IF /\ m.layer.canvasWidthCssPx > rawCanvasWidthPx
               /\ m.layer.canvasHeightCssPx > rawCanvasHeightPx
              THEN clipped
              ELSE allocateCanvas(deleteCanvasElement(clipped), config,
                                  rawCanvasWidthPx, rawCanvasHeightPx, numOfVisibleRows)
       ELSE allocateCanvas(m, config, rawCanvasWidthPx, rawCanvasHeightPx,
                           numOfVisibleRows)

setUpRenderCanvas(m, config, viewPortSize, numOfVisibleRows) ==
  LET rawCanvasWidthPx == viewPortSize.widthPx
      rawCanvasHeightPx == Ceil(Times(numOfVisibleRows, config.charHeightPx))
      clipped == setupClipping(m, m.layer.currentCanvasRawWidthPx, rawCanvasHeightPx)
  IN IF m.layer.charRenderCanvas # Null
       THEN IF /\ m.layer.canvasWidthCssPx >= rawCanvasWidthPx
               /\ m.layer.canvasHeightCssPx >= rawCanvasHeightPx
              THEN clipped
              ELSE allocateCanvas(deleteCanvasElement(clipped), config,
                                  rawCanvasWidthPx, rawCanvasHeightPx, numOfVisibleRows)
       ELSE allocateCanvas(m, config, rawCanvasWidthPx, rawCanvasHeightPx,
                           numOfVisibleRows)

\* What _writeLinesToGrid leaves in one row of the grid for document row
\* docRow: the line pasted (or the row cleared when the session has no
\* such line), the link highlighted and whether ligatures were marked.
gridRow(m, docRow) ==
  LET terminalLine == getTerminalLine(Get(m.layer.editSession), docRow)
  IN IF terminalLine # Null
       THEN [docRow |-> docRow, pasted |-> TRUE,
             highlight |-> IF m.layer.hoveredURL # Null
                             THEN getLinkIDByURL(Get(terminalLine), Get(m.layer.hoveredURL))
                             ELSE 0,
             ligatures |-> m.layer.ligatureMarker # Null]
       ELSE [docRow |-> docRow, pasted |-> FALSE, highlight |-> 0,
             ligatures |-> FALSE]

\* The loop writes one row of the grid per visible row and stops when the
\* grid is full, which it tests after writing.
writeLinesToGrid(m, rows) ==
  LET count == Min(Len(rows), Max(1, gridHeight(canvasOf(m))))
  IN [m EXCEPT !.layer.charRenderCanvas[1].grid =
                 [canvasRow \in 1..count |-> gridRow(m, rows[canvasRow])]]

----------------------------------------------------------------------------
(* The cell grid of the render canvas (CharCellGrid) and _writeLinesToGrid
   cell by cell.  A compositor machine c holds the grid, the session and the
   hovered URL of the layer, the ligature marker, the cells the call found,
   whether a throw has ended the call and the document rows written so far. *)

\* The palette slot of the default background.
PALETTE_BG_INDEX == 256

\* A cell after clearCell: blank, unstyled, without link.
ClearedCell ==
  [blank |-> TRUE, linkID |-> 0, highlight |-> FALSE, bg |-> 0, ligature |-> FALSE]

\* The cell in column x of a TerminalLine: text on a coloured background.
\* The hyperlink-highlight bit belongs to the renderer: no line carries it.
lineCell(line, x) ==
  [blank |-> FALSE, linkID |-> getLinkID(line, x), highlight |-> FALSE, bg |-> 1,
   ligature |-> FALSE]

\* A grid of a new canvas: cells[y * width + x + 1] is the cell in column x
\* of row y.
newGrid(width, height) ==
  [width |-> width, height |-> height,
   cells |-> [k \in 1..(width * height) |-> ClearedCell]]

offset(grid, x, y) == y * grid.width + x + 1

cellAt(grid, x, y) == grid.cells[offset(grid, x, y)]

clearCell(grid, x, y) == [grid EXCEPT !.cells[offset(grid, x, y)] = ClearedCell]

setBgClutIndex(grid, x, y, index) ==
  [grid EXCEPT !.cells[offset(grid, x, y)].bg = index]

\* pasteGrid(sourceGrid, x, y): the cells of the line, as many as fit the row
\* from column x.
pasteGrid(grid, line, x, y) ==
  [grid EXCEPT !.cells =
     [k \in DOMAIN @ |->
        LET i == k - offset(grid, x, y)
        IN IF i >= 0 /\ i < lineWidth(line) /\ x + i < grid.width
             THEN lineCell(line, i)
             ELSE @[k]]]

\* LigatureMarker.markLigaturesCharCellGridRow(grid, row, text): the cells of
\* the row that hold text have their ligature marks set.
markLigaturesCharCellGridRow(grid, y) ==
  [grid EXCEPT !.cells =
     [k \in DOMAIN @ |->
        IF k >= offset(grid, 0, y) /\ k < offset(grid, 0, y + 1) /\ ~@[k].blank
          THEN [@[k] EXCEPT !.ligature = TRUE]
          ELSE @[k]]]

\* What an access to a column past the end of a row does is the grid's
\* affair: it reaches nothing ("bounded"), or the cell at that offset of the
\* buffer, which lies in a later row, and past the end of the buffer either
\* nothing ("flat") or a RangeError ("flatThrow").
Overflows == {"bounded", "flat", "flatThrow"}

\* The index of the cell an access to column x of row y reaches, 0 for none.
reach(c, x, y) ==
  IF x < c.grid.width
    THEN offset(c.grid, x, y)
    ELSE IF c.overflow # "bounded" /\ offset(c.grid, x, y) <= Len(c.grid.cells)
           THEN offset(c.grid, x, y)
           ELSE 0

throws(c, x, y) ==
  /\ c.overflow = "flatThrow"
  /\ offset(c.grid, x, y) > Len(c.grid.cells)

\* A _highlightLinkID that highlights every cell that has a link.
highlightLinkID_anylink(c, canvasRow, startX, endX, linkID) ==
  LET hit(k) == \E i \in startX..(endX - 1) :
                  reach(c, i, canvasRow) = k /\ c.grid.cells[k].linkID # 0
  IN [c EXCEPT !.grid.cells = [k \in DOMAIN @ |->
                                 IF hit(k) THEN [@[k] EXCEPT !.highlight = TRUE]
                                           ELSE @[k]],
               !.error = \E i \in startX..(endX - 1) : throws(c, i, canvasRow)]

\* The loop visits the columns in order and changes no link id, so a cell
\* is highlighted exactly when some column of startX..endX-1 reaches it and
\* it has the link id; a throw ends the loop after the columns before it.
\* outside gains the <<column, row>> the loop asked the grid for that are
\* not cells of the row: the columns from the grid's width on, up to the
\* first that throws.
highlightLinkID(c, canvasRow, startX, endX, linkID) ==
  LET hit(k) == \E i \in startX..(endX - 1) :
                  reach(c, i, canvasRow) = k /\ c.grid.cells[k].linkID = linkID
      reached(i) == \A j \in startX..(i - 1) : ~throws(c, j, canvasRow)
  IN [c EXCEPT !.grid.cells = [k \in DOMAIN @ |->
                                 IF hit(k) THEN [@[k] EXCEPT !.highlight = TRUE]
                                           ELSE @[k]],
               !.outside = @ \cup { <<i, canvasRow>> : i \in
                                      { j \in startX..(endX - 1) :
                                          j >= c.grid.width /\ reached(j) } },
               !.error = \E i \in startX..(endX - 1) : throws(c, i, canvasRow)]

\* The loop of lines 320-323, from column i.
RECURSIVE fillRow(_, _, _)
fillRow(grid, canvasRow, i) ==
  IF i < grid.width
    THEN fillRow(setBgClutIndex(clearCell(grid, i, canvasRow), i, canvasRow,
                                PALETTE_BG_INDEX),
                 canvasRow, i + 1)
    ELSE grid

\* The loop of lines 332-334, from column i.
RECURSIVE clearRow(_, _, _)
clearRow(grid, canvasRow, i) ==
  IF i < grid.width
    THEN clearRow(clearCell(grid, i, canvasRow), canvasRow, i + 1)
    ELSE grid

\* A loop body that leaves the cells past the end of a line alone.
writeLine_nofill(c, docRow, canvasRow) ==
  LET terminalLine == getTerminalLine(c.editSession, docRow)
      line == Get(terminalLine)
      c1 == [c EXCEPT !.grid = pasteGrid(@, line, 0, canvasRow),
                      !.painted = Append(@, docRow)]
      linkID == IF c.hoveredURL # Null
                  THEN getLinkIDByURL(line, Get(c.hoveredURL))
                  ELSE 0
      c2 == IF linkID # 0
              THEN highlightLinkID(c1, canvasRow, 0, lineWidth(line), linkID)
              ELSE c1
      c4 == IF c.ligatureMarker # Null
              THEN [c2 EXCEPT !.grid = markLigaturesCharCellGridRow(@, canvasRow)]
              ELSE c2
  IN IF terminalLine # Null
       THEN IF c2.error THEN c2 ELSE c4
       ELSE [c EXCEPT !.grid = clearRow(@, canvasRow, 0),
                      !.painted = Append(@, docRow)]

\* A loop body that skips a row the session has no line for.
writeLine_skipabsent(c, docRow, canvasRow) ==
  LET terminalLine == getTerminalLine(c.editSession, docRow)
      line == Get(terminalLine)
      c1 == [c EXCEPT !.grid = pasteGrid(@, line, 0, canvasRow),
                      !.painted = Append(@, docRow)]
      linkID == IF c.hoveredURL # Null
                  THEN getLinkIDByURL(line, Get(c.hoveredURL))
                  ELSE 0
      c2 == IF linkID # 0
              THEN highlightLinkID(c1, canvasRow, 0, lineWidth(line), linkID)
              ELSE c1
      c3 == IF lineWidth(line) < c2.grid.width
              THEN [c2 EXCEPT !.grid = fillRow(@, canvasRow, lineWidth(line))]
              ELSE c2
      c4 == IF c.ligatureMarker # Null
              THEN [c3 EXCEPT !.grid = markLigaturesCharCellGridRow(@, canvasRow)]
              ELSE c3
  IN IF terminalLine # Null
       THEN IF c2.error THEN c2 ELSE c4
       ELSE [c EXCEPT !.painted = Append(@, docRow)]

\* The body of the loop of _writeLinesToGrid for document row docRow and
\* grid row canvasRow (lines 309-335).
writeLine(c, docRow, canvasRow) ==
  LET terminalLine == getTerminalLine(c.editSession, docRow)
      line == Get(terminalLine)
      c1 == [c EXCEPT !.grid = pasteGrid(@, line, 0, canvasRow),
                      !.painted = Append(@, docRow)]
      linkID == IF c.hoveredURL # Null
                  THEN getLinkIDByURL(line, Get(c.hoveredURL))
                  ELSE 0
      c2 == IF linkID # 0
              THEN highlightLinkID(c1, canvasRow, 0, lineWidth(line), linkID)
              ELSE c1
      c3 == IF lineWidth(line) < c2.grid.width
              THEN [c2 EXCEPT !.grid = fillRow(@, canvasRow, lineWidth(line))]
              ELSE c2
      c4 == IF c.ligatureMarker # Null
              THEN [c3 EXCEPT !.grid = markLigaturesCharCellGridRow(@, canvasRow)]
              ELSE c3
  IN IF terminalLine # Null
       THEN IF c2.error THEN c2 ELSE c4
       ELSE [c EXCEPT !.grid = clearRow(@, canvasRow, 0),
                      !.painted = Append(@, docRow)]

\* _writeLinesToGrid from grid row canvasRow: one row of the grid per
\* document row, until the rows or the grid's rows run out or a throw ends
\* the call.
RECURSIVE writeLinesToCells(_, _, _)
writeLinesToCells(c, rows, canvasRow) ==
  IF rows = <<>>
    THEN c
    ELSE LET c1 == writeLine(c, Head(rows), canvasRow)
         IN IF c1.error \/ canvasRow + 1 >= c.grid.height
              THEN c1
              ELSE writeLinesToCells(c1, Tail(rows), canvasRow + 1)

\* The compositor with the grid of a new canvas, and no call in progress.
compositorStart(width, height, overflow, ligatureMarker) ==
  [grid |-> newGrid(width, height), overflow |-> overflow,
   ligatureMarker |-> ligatureMarker,
   editSession |-> [lines |-> <<>>, folds |-> <<>>], hoveredURL |-> Null,
   rows |-> <<>>, found |-> <<>>, painted |-> <<>>, outside |-> {},
   error |-> FALSE, pc |-> "idle"]

NoCompositor == [compositorStart(1, 1, "bounded", Null) EXCEPT !.pc = "none"]

\* The documents the compositor paints: up to two lines, each narrower than,
\* as wide as or wider than the grid, and without folds.
CompositorLines == {LineA, LineB, LineC}
Documents ==
  { [lines |-> lines, folds |-> <<>>] :
      lines \in {<<>>} \cup { <<l>> : l \in CompositorLines }
                       \cup { <<k, l>> : k, l \in CompositorLines } }
GridHeights == {1, 2, 3}
HoveredURLs == {Null, Some("http://a"), Some("http://b")}

----------------------------------------------------------------------------
(* TermKeybindingsMapping (render_process/keybindings/KeyBindingsManager.ts):
   the key strokes of a keybindings file, in the file's order, and the
   commands of each. *)

\* The modifier keys held: of a key stroke and of a keyboard event.
Modifiers ==
  { [altKey |-> FALSE, ctrlKey |-> FALSE, shiftKey |-> FALSE, metaKey |-> FALSE],
    [altKey |-> FALSE, ctrlKey |-> TRUE, shiftKey |-> FALSE, metaKey |-> FALSE],
    [altKey |-> FALSE, ctrlKey |-> FALSE, shiftKey |-> TRUE, metaKey |-> FALSE],
    [altKey |-> TRUE, ctrlKey |-> FALSE, shiftKey |-> FALSE, metaKey |-> TRUE] }

\* ev.key: a letter in either case, a named key, the control codes of
\* Ctrl-A and of Enter, a space and a no-break space.
EventKeys == {"a", "A", "Enter", "^A", "^M", " ", "nbsp"}
KeyCodes == {13, 65}
KeyboardEvents ==
  { [key |-> key, keyCode |-> keyCode, altKey |-> m.altKey, ctrlKey |-> m.ctrlKey,
     shiftKey |-> m.shiftKey, metaKey |-> m.metaKey] :
      key \in EventKeys, keyCode \in KeyCodes, m \in Modifiers }

\* String.length and String.charCodeAt(0) of the keys.
keyLength(key) == IF key = "Enter" THEN 5 ELSE 1
charCodeAt(key) ==
  CASE key = "a" -> 97 [] key = "A" -> 65 [] key = "Enter" -> 69
    [] key = "^A" -> 1 [] key = "^M" -> 13 [] key = " " -> 32
    [] key = "nbsp" -> 160

\* keyCode | 0x40 and String.fromCharCode of it.
or0x40(keyCode) == IF (keyCode \div 64) % 2 = 1 THEN keyCode ELSE keyCode + 64
fromCharCode(code) == IF code = 65 THEN "A" ELSE "M"

\* eventKeyNameToConfigKeyName: the name a keybindings file gives a key.
eventKeyNameToConfigKeyName(key) == IF key = " " THEN "Space" ELSE key

toLowerCase(key) ==
  CASE key = "A" -> "a" [] key = "M" -> "m" [] key = "Enter" -> "enter"
    [] key = "Space" -> "space" [] OTHER -> key

\* A KeyStroke of a keybindings file, and its hashString(), which tells
\* apart the keys as the file writes them.
ConfigKeys == {"a", "A", "Enter", "Space"}
KeyStrokes ==
  { [configKey |-> configKey, configKeyLowercase |-> toLowerCase(configKey),
     altKey |-> m.altKey, ctrlKey |-> m.ctrlKey, shiftKey |-> m.shiftKey,
     metaKey |-> m.metaKey] : configKey \in ConfigKeys, m \in Modifiers }
hashString(keybinding) ==
  <<keybinding.configKey, keybinding.altKey, keybinding.ctrlKey,
    keybinding.metaKey, keybinding.shiftKey>>

\* The commands of the file: its i-th binding gives its key stroke command i.
commandsOf(keyStrokeList, hash) ==
  SelectSeq([i \in DOMAIN keyStrokeList |->
               IF hashString(keyStrokeList[i]) = hash THEN i ELSE 0],
            LAMBDA i : i # 0)

\* new TermKeybindingsMapping(keybindingsFile, platform).
newMapping(keyStrokeList) ==
  [enabled |-> TRUE, keyStrokeList |-> keyStrokeList,
   keyStrokeHashToCommandsMapping |->
     [hash \in { hashString(keyStrokeList[i]) : i \in DOMAIN keyStrokeList } |->
        commandsOf(keyStrokeList, hash)]]

KeybindingsFiles ==
  UNION { [1..n -> KeyStrokes] : n \in 0..MaxBindings }

\* The key of the event as lines 29-44 read it.
eventKey(ev) ==
  IF keyLength(ev.key) = 1 /\ charCodeAt(ev.key) <= 31
    THEN IF ev.keyCode = 13 THEN "Enter" ELSE fromCharCode(or0x40(ev.keyCode))
    ELSE IF charCodeAt(ev.key) = 160 THEN " " ELSE ev.key

\* The loop of lines 46-57 from the i-th key stroke of the list.
RECURSIVE lookup_noshift(_, _, _)
lookup_noshift(mapping, ev, i) ==
  IF i > Len(mapping.keyStrokeList)
    THEN Null
    ELSE LET keybinding == mapping.keyStrokeList[i]
             lowerKey == toLowerCase(eventKeyNameToConfigKeyName(eventKey(ev)))
         IN IF /\ keybinding.configKeyLowercase = lowerKey
               /\ keybinding.altKey = ev.altKey
               /\ keybinding.ctrlKey = ev.ctrlKey
               /\ keybinding.metaKey = ev.metaKey
              THEN Some(mapping.keyStrokeHashToCommandsMapping[hashString(keybinding)])
              ELSE lookup_noshift(mapping, ev, i + 1)

RECURSIVE lookup(_, _, _)
lookup(mapping, ev, i) ==
  IF i > Len(mapping.keyStrokeList)
    THEN Null
    ELSE LET keybinding == mapping.keyStrokeList[i]
             lowerKey == toLowerCase(eventKeyNameToConfigKeyName(eventKey(ev)))
         IN IF /\ keybinding.configKeyLowercase = lowerKey
               /\ keybinding.altKey = ev.altKey
               /\ keybinding.ctrlKey = ev.ctrlKey
               /\ keybinding.shiftKey = ev.shiftKey
               /\ keybinding.metaKey = ev.metaKey
              THEN Some(mapping.keyStrokeHashToCommandsMapping[hashString(keybinding)])
              ELSE lookup(mapping, ev, i + 1)

\* A mapEventToCommands that does not compare Shift.
mapEventToCommands_noshift(k, ev) ==
  [k EXCEPT !.ev = Some(ev), !.pc = "returned",
            !.result = IF ~k.mapping.enabled THEN Null
                                             ELSE lookup_noshift(k.mapping, ev, 1)]

\* mapEventToCommands(ev) on the key bindings machine k: the mapping, and
\* the event and result of the call that has just returned.
mapEventToCommands(k, ev) ==
  [k EXCEPT !.ev = Some(ev), !.pc = "returned",
            !.result = IF ~k.mapping.enabled THEN Null
                                             ELSE lookup(k.mapping, ev, 1)]

\* KeybindingsMapping.setEnabled(on).
setEnabled(k, on) == [k EXCEPT !.mapping.enabled = on]

keybindingsStart(keyStrokeList) ==
  [mapping |-> newMapping(keyStrokeList), ev |-> Null, result |-> Null,
   pc |-> "idle"]

NoKeybindings == [keybindingsStart(<<>>) EXCEPT !.pc = "none"]

----------------------------------------------------------------------------
(* The custom element decorators (src/unnamed/part_000): one element class
   with one field decorated with @Attribute, the filter and observer
   methods registered for it, and one instance of the class. *)

\* JavaScript values: numbers, NaN, strings, booleans and undefined.
Num(n) == [t |-> "number", n |-> n, s |-> "", b |-> FALSE]
NaN == [t |-> "nan", n |-> 0, s |-> "", b |-> FALSE]
Str(s) == [t |-> "string", n |-> 0, s |-> s, b |-> FALSE]
Bool(b) == [t |-> "boolean", n |-> 0, s |-> "", b |-> b]
Undefined == [t |-> "undefined", n |-> 0, s |-> "", b |-> FALSE]

typeof(x) == IF x.t = "nan" THEN "number" ELSE x.t

\* a === b: NaN equals nothing.
strictEquals(a, b) == a = b /\ a.t # "nan"

\* parseFloat(x) of the values of the model.
parseFloat(x) ==
  CASE x.t = "number" -> x
    [] x = Str("0") -> Num(0)
    [] x = Str("1") -> Num(1)
    [] x = Str("2") -> Num(2)
    [] OTHER -> NaN

\* The string setAttribute stores for a value.
toString(x) ==
  CASE x.t = "string" -> x.s
    [] x = Num(0) -> "0"
    [] x = Num(1) -> "1"
    [] x = Num(2) -> "2"
    [] x.t = "nan" -> "NaN"
    [] x.t = "boolean" -> IF x.b THEN "true" ELSE "false"
    [] OTHER -> "undefined"

\* kebabCase of the names of the model.
kebabCase(name) == IF name = "someValue" THEN "some-value" ELSE name

\* The values a caller sets.
RawValues ==
  {Num(0), Num(1), Num(2), Str("1"), Str("2"), Str(""), Str("x"), Bool(TRUE),
   Undefined}

\* The filter methods of the element class: clamp bounds a number by 1,
\* positive rejects a number that is not above 0 and never rejects every
\* value.
FilterMethods == {"clamp", "positive", "never"}
callFilter(methodName, value) ==
  CASE methodName = "clamp" ->
         IF value.t = "number" /\ value.n > 1 THEN Num(1) ELSE value
    [] methodName = "positive" ->
         IF value.t = "nan" \/ (value.t = "number" /\ value.n <= 0)
           THEN Undefined
           ELSE value
    [] OTHER -> Undefined

\* _getOrCreateAttributeData and installAttribute for the field jsName, with
\* the filters and observers the decorators registered.
newAttributeData(jsName, dataType, filters, observers) ==
  [jsName |-> jsName, attributeName |-> kebabCase(jsName), dataType |-> dataType,
   filters |-> filters, observers |-> observers]

\* The element machine: the class's attribute data; the instance's entries
\* in _instanceConstructedMap and instanceValueMap and its HTML attributes;
\* and of the call that has just returned the value and HTML attribute it
\* found, the calls of filters it made, the observers it notified and the
\* values it passed to the element's own setAttribute.
newElement(attrData) ==
  [attrData |-> attrData, constructed |-> FALSE, value |-> Undefined,
   html |-> [name \in {attrData.attributeName, "other"} |-> Null],
   op |-> "idle", newRawValue |-> Undefined, found |-> Undefined,
   foundHtml |-> Null, filtersRun |-> <<>>, notified |-> <<>>, written |-> <<>>]

NoElement ==
  [newElement(newAttributeData("someValue", "unknown", <<>>, <<>>)) EXCEPT !.op = "none"]

\* One call of a filter method (line 190): its name, the value it was
\* given and the value it returned.
filterCall(methodName, value) ==
  [methodName |-> methodName, value |-> value,
   returned |-> callFilter(methodName, value)]

\* The loop of lines 189-195 from the i-th filter: whether a filter
\* rejected the value, the value after the filters and the calls made.
RECURSIVE runFilters_skip(_, _, _, _)
runFilters_skip(filters, i, newValue, run) ==
  IF i > Len(filters)
    THEN [rejected |-> FALSE, newValue |-> newValue, run |-> run]
    ELSE LET updatedValue == callFilter(filters[i], newValue)
         IN IF updatedValue = Undefined
              THEN runFilters_skip(filters, i + 1, newValue,
                                   Append(run, filterCall(filters[i], newValue)))
              ELSE runFilters_skip(filters, i + 1, updatedValue,
                                   Append(run, filterCall(filters[i], newValue)))

RECURSIVE runFilters(_, _, _, _)
runFilters(filters, i, newValue, run) ==
  IF i > Len(filters)
    THEN [rejected |-> FALSE, newValue |-> newValue, run |-> run]
    ELSE LET updatedValue == callFilter(filters[i], newValue)
         IN IF updatedValue = Undefined
              THEN [rejected |-> TRUE, newValue |-> newValue,
                    run |-> Append(run, filterCall(filters[i], newValue))]
              ELSE runFilters(filters, i + 1, updatedValue,
                              Append(run, filterCall(filters[i], newValue)))

\* The element's own setAttribute (superSetAttributeSymbol).
superSetAttribute(e, attrName, value) ==
  [e EXCEPT !.html[attrName] = Some(toString(value)),
            !.written = Append(@, toString(value))]

\* A setter that goes on with the value it has when a filter returns
\* undefined.
setter_skip(e, newRawValue) ==
  LET attrData == e.attrData
      dataType ==
        IF ~e.constructed /\ attrData.dataType = "unknown"
          THEN CASE typeof(newRawValue) = "number" -> "Number"
                 [] typeof(newRawValue) = "boolean" -> "Boolean"
                 [] typeof(newRawValue) = "string" -> "String"
                 [] OTHER -> "unknown"
          ELSE attrData.dataType
      converted ==
        IF dataType = "Number" /\ typeof(newRawValue) # "number"
          THEN parseFloat(newRawValue)
          ELSE IF dataType = "Boolean" /\ typeof(newRawValue) # "boolean"
                 THEN Bool(newRawValue \in {Str(attrData.attributeName), Str(""),
                                            Str("true")})
                 ELSE newRawValue
      filtered ==
        IF e.constructed
          THEN runFilters_skip(attrData.filters, 1, converted, <<>>)
          ELSE [rejected |-> FALSE, newValue |-> converted, run |-> <<>>]
      e1 == [e EXCEPT !.attrData.dataType = dataType, !.filtersRun = @ \o filtered.run]
      e2 == [e1 EXCEPT !.value = filtered.newValue]
  IN IF filtered.rejected \/ strictEquals(e.value, filtered.newValue)
       THEN e1
       ELSE IF e.constructed
              THEN [superSetAttribute(e2, attrData.attributeName, filtered.newValue)
                      EXCEPT !.notified = @ \o attrData.observers]
              ELSE e2

\* The setter installAttribute defines for the field (lines 167-211).
setter(e, newRawValue) ==
  LET attrData == e.attrData
      dataType ==
        IF ~e.constructed /\ attrData.dataType = "unknown"
          THEN CASE typeof(newRawValue) = "number" -> "Number"
                 [] typeof(newRawValue) = "boolean" -> "Boolean"
                 [] typeof(newRawValue) = "string" -> "String"
                 [] OTHER -> "unknown"
          ELSE attrData.dataType
      converted ==
        IF dataType = "Number" /\ typeof(newRawValue) # "number"
          THEN parseFloat(newRawValue)
          ELSE IF dataType = "Boolean" /\ typeof(newRawValue) # "boolean"
                 THEN Bool(newRawValue \in {Str(attrData.attributeName), Str(""),
                                            Str("true")})
                 ELSE newRawValue
      filtered ==
        IF e.constructed
          THEN runFilters(attrData.filters, 1, converted, <<>>)
          ELSE [rejected |-> FALSE, newValue |-> converted, run |-> <<>>]
      e1 == [e EXCEPT !.attrData.dataType = dataType, !.filtersRun = @ \o filtered.run]
      e2 == [e1 EXCEPT !.value = filtered.newValue]
  IN IF filtered.rejected \/ strictEquals(e.value, filtered.newValue)
       THEN e1
       ELSE IF e.constructed
              THEN [superSetAttribute(e2, attrData.attributeName, filtered.newValue)
                      EXCEPT !.notified = @ \o attrData.observers]
              ELSE e2

\* interceptedConstructor.setAttribute over DecoratorData.setAttribute: the
\* field of a decorated attribute is assigned, any other attribute goes to
\* the element's own setAttribute.
setAttribute(e, attrName, value) ==
  IF attrName = e.attrData.attributeName
    THEN setter(e, value)
    ELSE superSetAttribute(e, attrName, value)

\* interceptedConstructor.removeAttribute over DecoratorData.removeAttribute.
removeAttribute(e, attrName) ==
  IF attrName = e.attrData.attributeName /\ e.attrData.dataType = "Boolean"
    THEN setter(e, Bool(FALSE))
    ELSE [e EXCEPT !.html[attrName] = Null]

\* The interceptedConstructor has run: markInstanceConstructed.
markInstanceConstructed(e) == [e EXCEPT !.constructed = TRUE]

\* The machine at the start of a call.
enter(e, op, newRawValue) ==
  [e EXCEPT !.op = op, !.newRawValue = newRawValue, !.found = e.value,
            !.foundHtml = e.html[e.attrData.attributeName]]

PropertyTypes == {"unknown", "String", "Number", "Boolean"}
FilterLists == UNION { [1..n -> FilterMethods] : n \in 0..MaxFilters }
ObserverLists == {<<>>, <<"onChange">>, <<"onChange", "refresh">>}
AttributeNames == {"some-value", "other"}

----------------------------------------------------------------------------
(* PopDownListPicker (render_process/gui/PopDownListPicker.ts): the entries,
   the selected id, the dialog, the handle of the deferred dispatch and,
   of the page, the callbacks doLater holds and the 'selected' events the
   picker has dispatched.  An entry is its id, and the id null is Null. *)

EntryIds == {"x", "y"}

\* The default _filterEntries (line 53): every entry.
filterEntries(entries) == entries

\* findIndex(entry => entry.id === selected): the index from 0, -1 for none.
findIndex(entries, selected) ==
  LET hits == { i \in DOMAIN entries : Some(entries[i]) = selected }
  IN IF hits = {} THEN -1 ELSE (CHOOSE i \in hits : \A j \in hits : i <= j) - 1

\* _setSelected(id): the observer of selected does not run.
setSelected(p, id) == [p EXCEPT !.selected = id]

\* _render() (lines 86-96, 123): the selected id becomes an entry of the
\* filtered list, and the dialog and the filter input are in the page.
renderEntries(p) ==
  LET filteredEntries == filterEntries(p.entries)
      newSelectedIndex == findIndex(filteredEntries, p.selected)
      newSelected == Some(filteredEntries[Max(0, newSelectedIndex) + 1])
      p1 == IF filteredEntries = <<>>
              THEN setSelected(p, Null)
              ELSE IF newSelected # p.selected THEN setSelected(p, newSelected) ELSE p
  IN [p1 EXCEPT !.rendered = TRUE]

setEntries(p, entries) ==
  renderEntries([p EXCEPT !.entries = entries, !.selected = Null])

open(p) == [renderEntries(p) EXCEPT !.dialogOpen = TRUE]

close(p) == IF ~p.rendered THEN p ELSE [p EXCEPT !.dialogOpen = FALSE]

\* doLater(func): func is queued to run once, later; selectedId is the id
\* the queued function of _okId has captured.
doLater(p, selectedId) == [p EXCEPT !.later = Append(@, selectedId)]

\* An _okId that schedules a dispatch whether or not one is pending.
okId_unguarded(p, selectedId) ==
  [doLater(p, selectedId) EXCEPT !.laterHandle = Some("disposable")]

okId(p, selectedId) ==
  IF p.laterHandle = Null
    THEN [doLater(p, selectedId) EXCEPT !.laterHandle = Some("disposable")]
    ELSE p

\* The function _okId hands to doLater (lines 321-324), run by the page.
laterCallback(p) ==
  LET selectedId == Head(p.later)
      p1 == [close(p) EXCEPT !.laterHandle = Null]
  IN [p1 EXCEPT !.later = Tail(@), !.events = Append(@, selectedId)]

handleDialogClose(p) == okId([p EXCEPT !.dialogOpen = FALSE], Null)

\* path: the data-id attributes of the elements of ev.path, innermost first.
RECURSIVE handleResultClick(_, _)
handleResultClick(p, path) ==
  IF path = <<>>
    THEN p
    ELSE handleResultClick(okId(p, Some(Head(path))), Tail(path))

PickerKeys ==
  {"Escape", "Tab", "Enter", "ArrowUp", "ArrowDown", "Home", "End", "a"}

\* handleKeyDown(ev) for the keys that need no measure of the page: the
\* step of an arrow key is 1.
handleKeyDown(p, key) ==
  LET isUp == key \in {"ArrowUp", "Home"}
      filteredEntries == filterEntries(p.entries)
      selectedIndex == findIndex(filteredEntries, p.selected)
      stepSize == 1
      target == IF isUp
                  THEN IF key = "Home" THEN 0 ELSE Max(0, selectedIndex - stepSize)
                  ELSE IF key = "End"
                         THEN Len(filteredEntries) - 1
                         ELSE Min(Len(filteredEntries) - 1, selectedIndex + stepSize)
  IN IF key = "Escape" THEN okId(p, Null)
     ELSE IF key = "Tab" THEN p
     ELSE IF isUp \/ key \in {"ArrowDown", "End", "Enter"}
       THEN IF filteredEntries = <<>> THEN p
            ELSE IF key = "Enter"
              THEN IF p.selected # Null THEN okId(p, p.selected) ELSE p
              ELSE renderEntries(setSelected(p, Some(filteredEntries[target + 1])))
       ELSE p

\* The step of the picker that has just been taken.
pickerOp(name, key, path) == [name |-> name, key |-> key, path |-> path]

\* new PopDownListPicker(): nothing is rendered yet.
pickerStart ==
  [entries |-> <<>>, selected |-> Null, rendered |-> FALSE,
   dialogOpen |-> FALSE, laterHandle |-> Null, later |-> <<>>,
   events |-> <<>>, op |-> pickerOp("new", "", <<>>)]

NoPicker == [pickerStart EXCEPT !.op = pickerOp("none", "", <<>>)]

EntryLists == {<<>>, <<"x", "y">>}
ClickPaths == {<<>>, <<"x">>, <<"y">>, <<"y", "x">>}

----------------------------------------------------------------------------
(* The public methods of CanvasTextLayer. *)

\* An update that caches the viewport only once it has painted.
update_cachelate(m, config, viewPortSize) ==
  LET m1 == [m EXCEPT !.layer.lastConfig = Some(config)]
      visibleRows == getVisibleRows(Get(m.layer.editSession), config)
      m2 == step(m1, "getVisibleRows")
      m3 == setUpRenderCanvas(step(m2, "setUpRenderCanvas"), config, viewPortSize,
                              Len(visibleRows))
      m4 == writeLinesToGrid(step(m3, "writeLinesToGrid"), visibleRows)
  IN IF m.layer.charRenderCanvas = Null
       THEN render(m4)
       ELSE render([m4 EXCEPT !.layer.lastViewPortSize = Some(viewPortSize)])

\* An update that caches the viewport and not the config.
update_uncached(m, config, viewPortSize) ==
  LET m1 == [m EXCEPT !.layer.lastViewPortSize = Some(viewPortSize)]
      visibleRows == getVisibleRows(Get(m.layer.editSession), config)
      m2 == step(m1, "getVisibleRows")
      m3 == setUpRenderCanvas(step(m2, "setUpRenderCanvas"), config, viewPortSize,
                              Len(visibleRows))
      m4 == writeLinesToGrid(step(m3, "writeLinesToGrid"), visibleRows)
  IN render(m4)

\* An update that flushes before it writes the grid.
update_flushfirst(m, config, viewPortSize) ==
  LET m1 == [m EXCEPT !.layer.lastConfig = Some(config),
                      !.layer.lastViewPortSize = Some(viewPortSize)]
      visibleRows == getVisibleRows(Get(m.layer.editSession), config)
      m2 == step(m1, "getVisibleRows")
      m3 == setUpRenderCanvas(step(m2, "setUpRenderCanvas"), config, viewPortSize,
                              Len(visibleRows))
  IN writeLinesToGrid(step(render(m3), "writeLinesToGrid"), visibleRows)

update(m, config, viewPortSize) ==
  LET m1 == [m EXCEPT !.layer.lastConfig = Some(config),
                      !.layer.lastViewPortSize = Some(viewPortSize)]
      visibleRows == getVisibleRows(Get(m.layer.editSession), config)
      m2 == step(m1, "getVisibleRows")
      m3 == setUpRenderCanvas(step(m2, "setUpRenderCanvas"), config, viewPortSize,
                              Len(visibleRows))
      m4 == writeLinesToGrid(step(m3, "writeLinesToGrid"), visibleRows)
  IN render(m4)

updateRows(m, config, viewPortSize, firstRow, lastRow) ==
  update(m, config, viewPortSize)

\* Reading a field of null throws a TypeError: the method ends there.
throw(m) == [m EXCEPT !.call.error = TRUE]

\* A scrollRows that scrolls whenever a canvas is live.
scrollRows_always(m, config, viewPortSize) ==
  IF m.layer.charRenderCanvas # Null
    THEN IF m.layer.lastConfig = Null
           THEN throw(m)
           ELSE LET delta == config.firstRow - Get(m.layer.lastConfig).firstRow
                IN update(scrollVertical(m, delta), config, viewPortSize)
    ELSE update(m, config, viewPortSize)

scrollRows(m, config, viewPortSize) ==
  IF m.layer.charRenderCanvas # Null
    THEN IF m.layer.lastConfig = Null
           THEN throw(m)
           ELSE LET delta == config.firstRow - Get(m.layer.lastConfig).firstRow
                IN IF Abs(delta) < gridHeight(canvasOf(m))
                     THEN update(scrollVertical(m, delta), config, viewPortSize)
                     ELSE update(m, config, viewPortSize)
    ELSE update(m, config, viewPortSize)

\* A reduceMemory that releases nothing.
reduceMemory_keep(m) == m

reduceMemory(m) == deleteCanvasElement(m)

\* A rerender without the guard: update reads config.firstRow of null.
rerender_unguarded(m) ==
  IF m.layer.lastConfig = Null \/ m.layer.lastViewPortSize = Null
    THEN throw(m)
    ELSE update(m, Get(m.layer.lastConfig), Get(m.layer.lastViewPortSize))

\* A rerender that paints only a canvas that is live.
rerender_nocreate(m) ==
  IF \/ m.layer.lastConfig = Null \/ m.layer.lastViewPortSize = Null
     \/ m.layer.charRenderCanvas = Null
    THEN m
    ELSE update(m, Get(m.layer.lastConfig), Get(m.layer.lastViewPortSize))

rerender(m) ==
  IF m.layer.lastConfig = Null \/ m.layer.lastViewPortSize = Null
    THEN m
    ELSE update(m, Get(m.layer.lastConfig), Get(m.layer.lastViewPortSize))

setPalette(m, palette) ==
  LET m1 == [m EXCEPT !.layer.palette = palette]
  IN IF m.layer.charRenderCanvas = Null
       THEN m1
       ELSE [m1 EXCEPT !.layer.charRenderCanvas[1].palette = palette]

setFontFamily(m, fontFamily) ==
  deleteCanvasElement([m EXCEPT !.layer.fontFamily = fontFamily])

setFontSizePx(m, fontSizePx) ==
  deleteCanvasElement([m EXCEPT !.layer.fontSizePx = fontSizePx])

\* A setDevicePixelRatio that keeps the canvas.
setDevicePixelRatio_keep(m, devicePixelRatio) ==
  [m EXCEPT !.layer.devicePixelRatio = devicePixelRatio]

setDevicePixelRatio(m, devicePixelRatio) ==
  deleteCanvasElement([m EXCEPT !.layer.devicePixelRatio = devicePixelRatio])

\* A setLigatureMarker that keeps the canvas.
setLigatureMarker_keep(m, marker) ==
  [m EXCEPT !.layer.ligatureMarker = marker]

setLigatureMarker(m, marker) ==
  deleteCanvasElement([m EXCEPT !.layer.ligatureMarker = marker])

\* A setCursorStyle that leaves the flush to the next update.
setCursorStyle_noflush(m, cursorStyle) ==
  LET m1 == [m EXCEPT !.layer.cursorStyle = cursorStyle]
  IN IF m.layer.charRenderCanvas # Null
       THEN [m1 EXCEPT !.layer.charRenderCanvas[1].cursorStyle = cursorStyle]
       ELSE m1

setCursorStyle(m, cursorStyle) ==
  LET m1 == [m EXCEPT !.layer.cursorStyle = cursorStyle]
  IN IF m.layer.charRenderCanvas # Null
       THEN render([m1 EXCEPT !.layer.charRenderCanvas[1].cursorStyle = cursorStyle])
       ELSE m1

setTransparentBackground(m, transparentBackground) ==
  deleteCanvasElement([m EXCEPT !.layer.transparentBackground = transparentBackground])

setSession(m, session) == [m EXCEPT !.layer.editSession = Some(session)]

\* The URL mouseOver resolves for a position on a line.
urlAt(line, pos) ==
  LET linkID == IF pos.column < lineWidth(line) THEN getLinkID(line, pos.column) ELSE 0
  IN IF linkID = 0 THEN Null ELSE getLinkURLByID(line, linkID)

\* A mouseOver that keeps the hovered URL when the position has no link.
mouseOver_sticky(m, pos) ==
  LET previousURL == m.layer.hoveredURL
      line == getTerminalLine(Get(m.layer.editSession), Get(pos).row)
      resolved == IF pos = Null THEN Null ELSE urlAt(Get(line), Get(pos))
      hovered == IF pos # Null /\ resolved = Null THEN previousURL ELSE resolved
      m1 == [m EXCEPT !.layer.hoveredURL = hovered]
  IN IF pos # Null /\ line = Null
       THEN throw(m)
       ELSE IF previousURL # hovered THEN rerender(m1) ELSE m1

\* A mouseOver that rerenders whether or not the hovered URL changed.
mouseOver_always(m, pos) ==
  LET line == getTerminalLine(Get(m.layer.editSession), Get(pos).row)
      hovered == IF pos = Null THEN Null ELSE urlAt(Get(line), Get(pos))
      m1 == [m EXCEPT !.layer.hoveredURL = hovered]
  IN IF pos # Null /\ line = Null THEN throw(m) ELSE rerender(m1)

mouseOver(m, pos) ==
  LET previousURL == m.layer.hoveredURL
      line == getTerminalLine(Get(m.layer.editSession), Get(pos).row)
      hovered == IF pos = Null THEN Null ELSE urlAt(Get(line), Get(pos))
      m1 == [m EXCEPT !.layer.hoveredURL = hovered]
  IN IF pos # Null /\ line = Null
       THEN throw(m)
       ELSE IF previousURL # hovered THEN rerender(m1) ELSE m1

----------------------------------------------------------------------------
(* The state machine. *)

\* What a call found: the canvas and the sizes the layer had recorded.
Found(l) ==
  [charRenderCanvas |-> l.charRenderCanvas,
   canvasWidthCssPx |-> l.canvasWidthCssPx,
   canvasHeightCssPx |-> l.canvasHeightCssPx,
   currentCanvasRawWidthPx |-> l.currentCanvasRawWidthPx]

\* The record of a call of method op with arguments args: what it found,
\* the canvases it created and disposed, its render() calls, its
\* scrollVertical() calls, the calls it made in their order, and whether
\* it threw.
Call(op, args, l) ==
  [op |-> op, args |-> args, before |-> Found(l), created |-> 0,
   disposed |-> 0, renders |-> 0, scrolls |-> <<>>, steps |-> <<>>,
   error |-> FALSE]

\* _fallbackPalette(): the white on black palette.
fallbackPalette == "fallback"

\* new CanvasTextLayer(options): the fields' initialisers, then the
\* constructor's assignments.  _devicePixelRatio is assigned from the
\* global devicePixelRatio of the window, not from the options.
constructed(options, windowDevicePixelRatio) ==
  [charRenderCanvas |-> Null,
   canvasWidthCssPx |-> 0,
   canvasHeightCssPx |-> 0,
   currentCanvasRawWidthPx |-> 0,
   ligatureMarker |-> options.ligatureMarker,
   editSession |-> Null,
   lastConfig |-> Null,
   lastViewPortSize |-> Null,
   palette |-> IF options.palette = Null THEN fallbackPalette ELSE Get(options.palette),
   fontFamily |-> options.fontFamily,
   fontSizePx |-> options.fontSizePx,
   devicePixelRatio |-> windowDevicePixelRatio,
   cursorStyle |-> options.cursorStyle,
   transparentBackground |-> options.transparentBackground,
   hoveredURL |-> Null]

\* The options the layer is constructed with, and the window's ratio.
DefaultOptions ==
  [palette |-> Null, fontFamily |-> "mono", fontSizePx |-> 12,
   cursorStyle |-> "BLOCK", ligatureMarker |-> Null,
   transparentBackground |-> FALSE]

DefaultLayer == constructed(DefaultOptions, Rat(1, 1))

Settings ==
  {"palette", "fontFamily", "fontSizePx", "devicePixelRatio", "cursorStyle",
   "ligatureMarker", "transparentBackground"}

\* The settings of layer l that differ from the constructed layer's.
Varied(l) == { k \in Settings : l[k] # DefaultLayer[k] }

\* The page before the layer has painted.  clipStyle is the size set on
\* the clip div and children the canvas elements appended to it; live are
\* the canvases constructed and not disposed, created and disposed count
\* the constructor's and dispose()'s calls, peak is the most canvases live
\* at one time and faults are the misuses of dispose() that have happened.
NewEnv ==
  [clipStyle |-> Null, children |-> {}, live |-> {}, created |-> 0,
   disposed |-> 0, peak |-> 0, faults |-> {}]

NoCall == Call("idle", <<>>, DefaultLayer)

Init ==
  /\ layer = DefaultLayer
  /\ env = NewEnv
  /\ call = NoCall
  /\ resolver = NoResolver
  /\ scaler = NoScaler
  /\ compositor = NoCompositor
  /\ keybindings = NoKeybindings
  /\ element = NoElement
  /\ picker = NoPicker

\* The editor is running: no call of the layer has just ended.
Idle == call.op = "idle"

\* The machine at the start of a call of method op.
Begin(op, args) == [layer |-> layer, env |-> env, call |-> Call(op, args, layer)]

\* The call has ended in machine m (r: m, computed once).
Commit(m) ==
  /\ Idle
  /\ \E r \in {m} :
       /\ r.env.created <= MaxSurfaces
       /\ Cardinality(Varied(r.layer)) <= MaxVaried
       /\ layer' = r.layer
       /\ env' = r.env
       /\ call' = r.call
  /\ UNCHANGED <<resolver, scaler, compositor, keybindings, element, picker>>

\* The editor attaches a session before it asks the layer to paint.
HasSession == layer.editSession # Null

Update ==
  /\ HasSession
  /\ \E config \in Configs, viewPortSize \in ViewPortSizes :
       Commit(update(Begin("update", <<config, viewPortSize>>), config, viewPortSize))

UpdateRows ==
  /\ HasSession
  /\ \E config \in Configs, viewPortSize \in ViewPortSizes :
       Commit(updateRows(Begin("updateRows", <<config, viewPortSize>>),
                         config, viewPortSize, config.firstRow, config.lastRow))

ScrollRows ==
  /\ HasSession
  /\ \E config \in Configs, viewPortSize \in ViewPortSizes :
       Commit(scrollRows(Begin("scrollRows", <<config, viewPortSize>>), config, viewPortSize))

Rerender == Commit(rerender(Begin("rerender", <<>>)))

ReduceMemory == Commit(reduceMemory(Begin("reduceMemory", <<>>)))

SetPalette == \E palette \in Palettes : Commit(setPalette(Begin("setPalette", <<palette>>), palette))

SetFontFamily ==
  \E fontFamily \in FontFamilies :
    Commit(setFontFamily(Begin("setFontFamily", <<fontFamily>>), fontFamily))

SetFontSizePx ==
  \E fontSizePx \in FontSizes :
    Commit(setFontSizePx(Begin("setFontSizePx", <<fontSizePx>>), fontSizePx))

SetDevicePixelRatio ==
  \E ratio \in DevicePixelRatios :
    Commit(setDevicePixelRatio(Begin("setDevicePixelRatio", <<ratio>>), ratio))

SetLigatureMarker ==
  \E marker \in LigatureMarkers :
    Commit(setLigatureMarker(Begin("setLigatureMarker", <<marker>>), marker))

SetCursorStyle ==
  \E cursorStyle \in CursorStyles :
    Commit(setCursorStyle(Begin("setCursorStyle", <<cursorStyle>>), cursorStyle))

SetTransparentBackground ==
  \E flag \in BOOLEAN :
    Commit(setTransparentBackground(Begin("setTransparentBackground", <<flag>>), flag))

SetSession ==
  \E session \in Sessions : Commit(setSession(Begin("setSession", <<session>>), session))

MouseOver ==
  \/ Commit(mouseOver(Begin("mouseOver", <<Null>>), Null))
  \/ /\ HasSession
     /\ \E pos \in Positions : Commit(mouseOver(Begin("mouseOver", <<Some(pos)>>), Some(pos)))

\* The call returns to the editor, which keeps no record of it.
Return ==
  /\ ~Idle
  /\ call' = NoCall
  /\ UNCHANGED <<layer, env, resolver, scaler, compositor, keybindings, element, picker>>

Next ==
  \/ Return
  \/ Update
  \/ UpdateRows
  \/ ScrollRows
  \/ Rerender
  \/ ReduceMemory
  \/ SetPalette
  \/ SetFontFamily
  \/ SetFontSizePx
  \/ SetDevicePixelRatio
  \/ SetLigatureMarker
  \/ SetCursorStyle
  \/ SetTransparentBackground
  \/ SetSession
  \/ MouseOver

Spec == Init /\ [][Next]_vars

\* The row resolver alone: one call of _getVisibleRows, for any fold data
\* and any config, runs its loop to the break.  The loop has no statement
\* that waits, so an iteration that can run does run.
ResolverInit ==
  /\ layer = DefaultLayer
  /\ env = NewEnv
  /\ call = NoCall
  /\ resolver \in { resolverStart([lines |-> <<>>, folds |-> folds], config) :
                      folds \in FoldData, config \in ResolverConfigs }
  /\ scaler = NoScaler
  /\ compositor = NoCompositor
  /\ keybindings = NoKeybindings
  /\ element = NoElement
  /\ picker = NoPicker

ResolverIterate ==
  /\ resolver.pc = "loop"
  /\ Len(resolver.visibleRows) < MaxResolverRow + 3
  /\ resolver' = resolverIterate(resolver)
  /\ UNCHANGED <<layer, env, call, scaler, compositor, keybindings, element, picker>>

ResolverNext == ResolverIterate

ResolverSpec ==
  ResolverInit /\ [][ResolverNext]_vars /\ WF_vars(ResolverIterate)

\* The pixel scaler alone: one call of _computeDevicePixelRatioPair for any
\* device pixel ratio and any length.
ScalerInit ==
  /\ layer = DefaultLayer
  /\ env = NewEnv
  /\ call = NoCall
  /\ resolver = NoResolver
  /\ scaler \in { scalerStart(devicePixelRatio, length) :
                    devicePixelRatio \in ScalerRatios, length \in ScalerLengths }
  /\ compositor = NoCompositor
  /\ keybindings = NoKeybindings
  /\ element = NoElement
  /\ picker = NoPicker

ComputeDevicePixelRatioPair ==
  /\ scaler.pc = "call"
  /\ scaler' = [scaler EXCEPT
                  !.pair = Some(computeDevicePixelRatioPair(scaler.devicePixelRatio,
                                                            scaler.length)),
                  !.pc = "done"]
  /\ UNCHANGED <<layer, env, call, resolver, compositor, keybindings, element, picker>>

ScalerNext == ComputeDevicePixelRatioPair

ScalerSpec == ScalerInit /\ [][ScalerNext]_vars

\* The compositor alone: the grid of one canvas through any sequence of
\* calls of _writeLinesToGrid, the session and the hovered URL changing
\* between them as the terminal writes and the mouse moves.
CompositorInit ==
  /\ layer = DefaultLayer
  /\ env = NewEnv
  /\ call = NoCall
  /\ resolver = NoResolver
  /\ scaler = NoScaler
  /\ compositor \in { compositorStart(width, height, overflow, ligatureMarker) :
                        width \in 1..MaxGridWidth, height \in GridHeights,
                        overflow \in Overflows, ligatureMarker \in LigatureMarkers }
  /\ keybindings = NoKeybindings
  /\ element = NoElement
  /\ picker = NoPicker

WriteLinesToGrid ==
  /\ compositor.pc = "idle"
  /\ \E editSession \in Documents, hoveredURL \in HoveredURLs,
        firstRow \in 0..1, lastRow \in 0..1 :
        /\ firstRow <= lastRow
        /\ LET rows == getVisibleRows(editSession,
                                      [firstRow |-> firstRow, lastRow |-> lastRow])
               c == [compositor EXCEPT !.editSession = editSession,
                                       !.hoveredURL = hoveredURL,
                                       !.rows = rows,
                                       !.found = compositor.grid.cells,
                                       !.pc = "written"]
           IN compositor' = writeLinesToCells(c, rows, 0)
  /\ UNCHANGED <<layer, env, call, resolver, scaler, keybindings, element, picker>>

\* The call has returned or thrown; the grid stays as the call left it.
CompositorReturn ==
  /\ compositor.pc = "written"
  /\ compositor' = [compositor EXCEPT
                      !.editSession = [lines |-> <<>>, folds |-> <<>>],
                      !.hoveredURL = Null, !.rows = <<>>, !.found = <<>>,
                      !.painted = <<>>, !.outside = {},
                      !.error = FALSE, !.pc = "idle"]
  /\ UNCHANGED <<layer, env, call, resolver, scaler, keybindings, element, picker>>

CompositorNext == WriteLinesToGrid \/ CompositorReturn

CompositorSpec == CompositorInit /\ [][CompositorNext]_vars

\* The key bindings alone: a mapping loaded from any keybindings file, its
\* owner enabling and disabling it and the terminal asking it for the
\* commands of keyboard events.
KeybindingsInit ==
  /\ layer = DefaultLayer
  /\ env = NewEnv
  /\ call = NoCall
  /\ resolver = NoResolver
  /\ scaler = NoScaler
  /\ compositor = NoCompositor
  /\ keybindings \in { keybindingsStart(file) : file \in KeybindingsFiles }
  /\ element = NoElement
  /\ picker = NoPicker

Aside == <<layer, env, call, resolver, scaler, compositor, element, picker>>

MapEventToCommands ==
  /\ keybindings.pc = "idle"
  /\ \E ev \in KeyboardEvents : keybindings' = mapEventToCommands(keybindings, ev)
  /\ UNCHANGED Aside

SetEnabled ==
  /\ keybindings.pc = "idle"
  /\ \E on \in BOOLEAN : keybindings' = setEnabled(keybindings, on)
  /\ keybindings' # keybindings
  /\ UNCHANGED Aside

\* The caller has taken the result.
KeybindingsReturn ==
  /\ keybindings.pc = "returned"
  /\ keybindings' = [keybindings EXCEPT !.ev = Null, !.result = Null, !.pc = "idle"]
  /\ UNCHANGED Aside

KeybindingsNext == MapEventToCommands \/ SetEnabled \/ KeybindingsReturn

KeybindingsSpec == KeybindingsInit /\ [][KeybindingsNext]_vars

\* The decorated element alone: an element class with any filters and
\* observers on its attribute; its constructor assigns the field any number
\* of times before the instance is marked constructed, and callers then
\* assign the field and set and remove attributes.
ElementInit ==
  /\ layer = DefaultLayer
  /\ env = NewEnv
  /\ call = NoCall
  /\ resolver = NoResolver
  /\ scaler = NoScaler
  /\ compositor = NoCompositor
  /\ keybindings = NoKeybindings
  /\ element \in { newElement(newAttributeData("someValue", dataType, filters, observers)) :
                     dataType \in PropertyTypes, filters \in FilterLists,
                     observers \in ObserverLists }
  /\ picker = NoPicker

Others == <<layer, env, call, resolver, scaler, compositor, keybindings, picker>>

MarkInstanceConstructed ==
  /\ element.op = "idle" /\ ~element.constructed
  /\ element' = markInstanceConstructed(element)
  /\ UNCHANGED Others

SetField ==
  /\ element.op = "idle"
  /\ \E newRawValue \in RawValues :
        element' = setter(enter(element, "set", newRawValue), newRawValue)
  /\ UNCHANGED Others

SetAttribute ==
  /\ element.op = "idle" /\ element.constructed
  /\ \E attrName \in AttributeNames, value \in {Str("1"), Str("2"), Str(""), Str("x")} :
        element' = setAttribute(enter(element, "setAttribute", value), attrName, value)
  /\ UNCHANGED Others

RemoveAttribute ==
  /\ element.op = "idle" /\ element.constructed
  /\ \E attrName \in AttributeNames :
        element' = removeAttribute(enter(element, "removeAttribute", Undefined), attrName)
  /\ UNCHANGED Others

\* The call has returned.
ElementReturn ==
  /\ element.op \notin {"idle", "none"}
  /\ element' = [element EXCEPT !.op = "idle", !.newRawValue = Undefined,
                                !.found = Undefined, !.foundHtml = Null,
                                !.filtersRun = <<>>, !.notified = <<>>,
                                !.written = <<>>]
  /\ UNCHANGED Others

ElementNext ==
  \/ MarkInstanceConstructed
  \/ SetField
  \/ SetAttribute
  \/ RemoveAttribute
  \/ ElementReturn

ElementSpec == ElementInit /\ [][ElementNext]_vars

\* The list picker alone: its owner sets the entries and opens it, the user
\* presses keys in the filter input, clicks in the results and asks the
\* dialog to close, and the page runs the functions doLater holds.  The
\* filter input, the results and the dialog send events once rendered.
PickerInit ==
  /\ layer = DefaultLayer
  /\ env = NewEnv
  /\ call = NoCall
  /\ resolver = NoResolver
  /\ scaler = NoScaler
  /\ compositor = NoCompositor
  /\ keybindings = NoKeybindings
  /\ element = NoElement
  /\ picker = pickerStart

Rest == <<layer, env, call, resolver, scaler, compositor, keybindings, element>>

SetEntries ==
  /\ \E entries \in EntryLists :
       picker' = [setEntries(picker, entries) EXCEPT
                    !.op = pickerOp("setEntries", "", entries)]
  /\ UNCHANGED Rest

Open ==
  /\ picker' = [open(picker) EXCEPT !.op = pickerOp("open", "", <<>>)]
  /\ UNCHANGED Rest

HandleKeyDown ==
  /\ picker.rendered
  /\ \E key \in PickerKeys :
       picker' = [handleKeyDown(picker, key) EXCEPT
                    !.op = pickerOp("handleKeyDown", key, <<>>)]
  /\ UNCHANGED Rest

HandleResultClick ==
  /\ picker.rendered
  /\ \E path \in ClickPaths :
       /\ \A i \in DOMAIN path : \E j \in DOMAIN picker.entries : picker.entries[j] = path[i]
       /\ picker' = [handleResultClick(picker, path) EXCEPT
                       !.op = pickerOp("handleResultClick", "", path)]
  /\ UNCHANGED Rest

HandleDialogClose ==
  /\ picker.rendered
  /\ picker' = [handleDialogClose(picker) EXCEPT
                  !.op = pickerOp("handleDialogClose", "", <<>>)]
  /\ UNCHANGED Rest

\* The page runs the function that has waited longest.
RunLater ==
  /\ picker.later # <<>>
  /\ Len(picker.events) < MaxSelections
  /\ picker' = [laterCallback(picker) EXCEPT !.op = pickerOp("later", "", <<>>)]
  /\ UNCHANGED Rest

PickerNext ==
  \/ SetEntries
  \/ Open
  \/ HandleKeyDown
  \/ HandleResultClick
  \/ HandleDialogClose
  \/ RunLater

PickerSpec == PickerInit /\ [][PickerNext]_vars

----------------------------------------------------------------------------
(* The properties.  A state in which call.op is a method's name is the
   state that method's call left; call.before is what the call found. *)

HasCanvas == layer.charRenderCanvas # Null

canvas == Get(layer.charRenderCanvas)

\* The calls that paint with the config and viewport they are given.
Updates == {"update", "updateRows", "scrollRows"}

\* The setters of what a canvas is constructed with and cannot change.
InvalidatingSetters ==
  {"setFontFamily", "setFontSizePx", "setDevicePixelRatio",
   "setLigatureMarker", "setTransparentBackground"}

\* What the last update required: the viewport's width, and the height of
\* the visible rows rounded up to a whole pixel.
requiredWidthPx == Get(layer.lastViewPortSize).widthPx

visibleRowCount ==
  Len(getVisibleRows(Get(layer.editSession), Get(layer.lastConfig)))

requiredHeightPx ==
  LET rowHeight == Get(layer.lastConfig).charHeightPx
  IN (visibleRowCount * rowHeight.n + rowHeight.d - 1) \div rowHeight.d

\* C1: at most one canvas is live at any time: the canvases created less
\* the canvases disposed is 0 or 1 and is the number live, never were two
\* live together, the one live is the one the layer holds and the last one
\* created, and a call that creates a canvas creates one and has disposed
\* the canvas it found.
C1_AtMostOneLiveSurface ==
  /\ env.created - env.disposed \in {0, 1}
  /\ Cardinality(env.live) = env.created - env.disposed
  /\ env.peak <= 1
  /\ env.live = IF HasCanvas THEN {canvas.id} ELSE {}
  /\ env.live \subseteq {env.created}
  /\ call.created <= 1
  /\ call.created = 1 /\ call.before.charRenderCanvas # Null => call.disposed = 1

\* An update has disposed the first canvas and created the second.
C1_Witness ==
  /\ call.op = "update"
  /\ call.created = 1 /\ call.disposed = 1
  /\ env.created = 2 /\ env.disposed = 1
  /\ env.live = {2}

\* C2: a live canvas was constructed with the layer's current font family,
\* font size, device pixel ratio and transparent-background flag.
C2_SurfaceMatchesSettings ==
  HasCanvas =>
    /\ canvas.fontFamily = layer.fontFamily
    /\ canvas.fontSizePx = Times(layer.fontSizePx, layer.devicePixelRatio)
    /\ canvas.usableWidthPx = Times(layer.canvasWidthCssPx, layer.devicePixelRatio)
    /\ canvas.usableHeightPx = Times(layer.canvasHeightCssPx, layer.devicePixelRatio)
    /\ canvas.transparentBackground = layer.transparentBackground

\* A canvas is live after the device pixel ratio was set to another value.
C2_Witness ==
  /\ HasCanvas
  /\ layer.devicePixelRatio # DefaultLayer.devicePixelRatio
  /\ call.op = "update"

\* C3: each of the five invalidating setters leaves no canvas live, and an
\* update that finds no canvas creates exactly one, a new one: its id is
\* that of no canvas created before.
C3_InvalidatingSetters ==
  /\ call.op \in InvalidatingSetters =>
       /\ ~HasCanvas
       /\ env.live = {}
       /\ call.created = 0
       /\ call.disposed = IF call.before.charRenderCanvas # Null THEN 1 ELSE 0
  /\ call.op = "update" /\ call.before.charRenderCanvas = Null =>
       /\ call.created = 1
       /\ HasCanvas
       /\ canvas.id = env.created
       /\ env.created = env.disposed + 1

\* An update has created the second canvas after the font size was set to
\* a size the first was not constructed with.
C3_Witness ==
  /\ call.op = "update"
  /\ call.before.charRenderCanvas = Null
  /\ env.created = 2
  /\ layer.fontSizePx # DefaultLayer.fontSizePx
  /\ canvas.fontSizePx = Rat(layer.fontSizePx, 1)

\* C4: setPalette and setCursorStyle neither dispose nor create a canvas.
\* They store the value; a live canvas stays the same instance and is
\* updated in place, and a canvas always has the layer's palette and
\* cursor style.  setCursorStyle flushes once when a canvas is live and
\* setPalette never flushes.
C4_InPlaceSetters ==
  /\ HasCanvas =>
       /\ canvas.palette = layer.palette
       /\ canvas.cursorStyle = layer.cursorStyle
  /\ call.op \in {"setPalette", "setCursorStyle"} =>
       /\ call.created = 0 /\ call.disposed = 0
       /\ HasCanvas <=> call.before.charRenderCanvas # Null
       /\ HasCanvas =>
            /\ call.op = "setPalette" =>
                 canvas = [Get(call.before.charRenderCanvas) EXCEPT !.palette = call.args[1]]
            /\ call.op = "setCursorStyle" =>
                 canvas = [Get(call.before.charRenderCanvas) EXCEPT !.cursorStyle = call.args[1]]
  /\ call.op = "setPalette" => layer.palette = call.args[1] /\ call.renders = 0
  /\ call.op = "setCursorStyle" =>
       /\ layer.cursorStyle = call.args[1]
       /\ call.renders = IF HasCanvas THEN 1 ELSE 0

\* setCursorStyle has given a live canvas another cursor style.
C4_Witness ==
  /\ call.op = "setCursorStyle"
  /\ HasCanvas
  /\ canvas.cursorStyle # Get(call.before.charRenderCanvas).cursorStyle
  /\ call.renders = 1

\* C5: an update that finds a canvas whose allocated CSS width and height
\* are at least the required width and height keeps it: nothing is created
\* or disposed and the layer holds the same instance.
C5_ReuseWhenLargeEnough ==
  /\ call.op \in Updates
  /\ call.before.charRenderCanvas # Null
  /\ call.before.canvasWidthCssPx >= requiredWidthPx
  /\ call.before.canvasHeightCssPx >= requiredHeightPx
  => /\ call.created = 0 /\ call.disposed = 0
     /\ HasCanvas
     /\ canvas.id = Get(call.before.charRenderCanvas).id
     /\ env.live = {canvas.id}

\* An update has kept a canvas that is exactly as wide as required.
C5_Witness ==
  /\ call.op = "update"
  /\ call.before.charRenderCanvas # Null
  /\ call.before.canvasWidthCssPx = requiredWidthPx
  /\ call.before.canvasHeightCssPx >= requiredHeightPx
  /\ call.created = 0

\* C6 as stated: after every update the clip region is as wide as the
\* viewport passed and as high as the visible rows, rounded up.
C6_ClipIsViewportWidth ==
  call.op \in Updates =>
    env.clipStyle = Some([width |-> call.args[2].widthPx,
                          height |-> requiredHeightPx])

\* C6: after every update the clip region is as high as the visible rows,
\* rounded up, and as wide as the canvas was allocated: the larger of the
\* viewport's width and the width allocated before.
C6_ClipIsAllocatedWidth ==
  call.op \in Updates =>
    /\ env.clipStyle =
         Some([width |-> Max(call.args[2].widthPx, call.before.currentCanvasRawWidthPx),
               height |-> requiredHeightPx])
    /\ Get(env.clipStyle).width = layer.canvasWidthCssPx
    /\ Get(env.clipStyle).width >= call.args[2].widthPx
    /\ Get(env.clipStyle).height <= layer.canvasHeightCssPx

\* An update with a narrower viewport has kept the canvas and clipped to
\* the canvas's width.
C6_Witness ==
  /\ call.op = "update"
  /\ call.created = 0
  /\ call.args[2].widthPx < layer.canvasWidthCssPx
  /\ Get(env.clipStyle).width = layer.canvasWidthCssPx

\* An update must allocate when it finds no canvas or one too small.
MustAllocate ==
  \/ call.before.charRenderCanvas = Null
  \/ call.before.canvasWidthCssPx < requiredWidthPx
  \/ call.before.canvasHeightCssPx < requiredHeightPx

\* ceil((round(n * 1.5) + 1) * rowHeight) for n visible rows.
provisionedHeightPx ==
  LET rowHeight == Get(layer.lastConfig).charHeightPx
      rows == (3 * visibleRowCount + 1) \div 2 + 1
  IN (rows * rowHeight.n + rowHeight.d - 1) \div rowHeight.d

\* C7: an update that must allocate disposes the canvas it found and then
\* creates one canvas, of CSS height ceil((round(n * 1.5) + 1) * rowHeight)
\* and of CSS width the larger of the required width and the width
\* allocated before.
C7_AllocationSize ==
  call.op \in Updates /\ MustAllocate =>
    /\ call.created = 1
    /\ call.disposed = IF call.before.charRenderCanvas # Null THEN 1 ELSE 0
    /\ env.peak <= 1
    /\ HasCanvas /\ canvas.id = env.created
    /\ layer.canvasHeightCssPx = provisionedHeightPx
    /\ layer.canvasWidthCssPx = Max(requiredWidthPx, call.before.canvasWidthCssPx)
    /\ canvas.styleWidth >= layer.canvasWidthCssPx
    /\ canvas.styleHeight >= layer.canvasHeightCssPx

\* An update has replaced a canvas that was too low and wider than
\* required.
C7_Witness ==
  /\ call.op = "update"
  /\ call.before.charRenderCanvas # Null
  /\ call.before.canvasHeightCssPx < requiredHeightPx
  /\ call.before.canvasWidthCssPx > requiredWidthPx
  /\ call.created = 1 /\ call.disposed = 1

\* C8: the allocated width never shrinks.  It changes only when a canvas
\* is created, a canvas is created at least as wide as the one before, and
\* the width the layer remembers is the width of the last allocation.
C8_WidthNeverShrinks ==
  /\ layer.currentCanvasRawWidthPx = layer.canvasWidthCssPx
  /\ call.op # "idle" =>
       /\ call.created = 0 => layer.canvasWidthCssPx = call.before.canvasWidthCssPx
       /\ call.created > 0 => layer.canvasWidthCssPx >= call.before.canvasWidthCssPx
       /\ HasCanvas => canvas.usableWidthPx =
                         Times(layer.canvasWidthCssPx, layer.devicePixelRatio)

\* After the canvas was released, an update with a narrower viewport has
\* created a canvas as wide as the one released.
C8_Witness ==
  /\ call.op = "update"
  /\ call.before.charRenderCanvas = Null
  /\ call.created = 1
  /\ call.args[2].widthPx < call.before.canvasWidthCssPx
  /\ layer.canvasWidthCssPx = call.before.canvasWidthCssPx

\* C9: reduceMemory leaves no canvas live: it disposes the live canvas and
\* changes nothing else, and changes nothing when none is live.  The next
\* update, or rerender with a cached config and viewport, creates exactly
\* one new canvas.
C9_ReduceMemory ==
  [][/\ call'.op = "reduceMemory" =>
          /\ layer'.charRenderCanvas = Null
          /\ env'.live = {}
          /\ call'.created = 0 /\ call'.renders = 0 /\ ~call'.error
          /\ layer.charRenderCanvas = Null =>
               layer' = layer /\ env' = env /\ call'.disposed = 0
          /\ layer.charRenderCanvas # Null =>
               /\ layer' = [layer EXCEPT !.charRenderCanvas = Null]
               /\ call'.disposed = 1
               /\ env'.disposed = env.disposed + 1
     /\ /\ layer.charRenderCanvas = Null
        /\ \/ call'.op = "update"
           \/ /\ call'.op = "rerender"
              /\ layer.lastConfig # Null /\ layer.lastViewPortSize # Null
        => /\ call'.created = 1 /\ call'.disposed = 0
           /\ layer'.charRenderCanvas # Null
           /\ Get(layer'.charRenderCanvas).id = env.created + 1
           /\ env'.live = {env.created + 1}]_vars

\* reduceMemory has disposed the canvas of a layer that has painted.
C9_Witness ==
  /\ call.op = "reduceMemory"
  /\ call.before.charRenderCanvas # Null
  /\ call.disposed = 1
  /\ ~HasCanvas
  /\ layer.lastConfig # Null

\* C10: rerender with no cached config or no cached viewport does nothing:
\* it throws no error, creates and disposes no canvas, flushes nothing and
\* leaves the layer and the page as they were.
C10_RerenderBeforeUpdate ==
  [][/\ call'.op = "rerender"
     /\ layer.lastConfig = Null \/ layer.lastViewPortSize = Null
     => /\ ~call'.error
        /\ call'.created = 0 /\ call'.disposed = 0
        /\ call'.renders = 0 /\ call'.scrolls = <<>>
        /\ layer' = layer
        /\ env' = env]_vars

\* rerender was called on a layer that has a session and has not painted.
C10_Witness ==
  /\ call.op = "rerender"
  /\ layer.lastConfig = Null
  /\ layer.editSession # Null
  /\ call.renders = 0

\* The calls update makes, in their order.
UpdateOrder ==
  <<"getVisibleRows", "setUpRenderCanvas", "writeLinesToGrid", "render">>

\* The calls a call made after the scroll that scrollRows may request.
UpdateSteps(steps) ==
  IF steps # <<>> /\ Head(steps) = "scrollVertical" THEN Tail(steps) ELSE steps

\* C11 as stated: an update checks the canvas's capacity, then resolves the
\* rows, then writes the grid, then flushes.
C11_StatedOrder ==
  call.op \in Updates \cup {"rerender"} /\ call.steps # <<>> =>
    UpdateSteps(call.steps) =
      <<"setUpRenderCanvas", "getVisibleRows", "writeLinesToGrid", "render">>

\* C11: an update, also one reached through updateRows, scrollRows,
\* rerender or mouseOver, resolves the rows, then checks the canvas's
\* capacity, then writes the grid, then flushes, each once; and a call
\* starts in the state the call before it left.
C11_UpdateOrder ==
  [][/\ call'.op \in Updates => UpdateSteps(call'.steps) = UpdateOrder
     /\ call'.op \in {"rerender", "mouseOver"} =>
          call'.steps \in {<<>>, UpdateOrder}
     /\ call'.op = "idle" => layer' = layer /\ env' = env
     /\ call'.op # "idle" => call'.before = Found(layer)]_vars

\* scrollRows has scrolled, then updated a canvas the update before it
\* left.
C11_Witness ==
  /\ call.op = "scrollRows"
  /\ call.steps = <<"scrollVertical">> \o UpdateOrder
  /\ call.before.charRenderCanvas = layer.charRenderCanvas

\* C12: scrollRows requests one scroll of the canvas it finds, by the
\* change of the first row, when a canvas is live and the change is less
\* than the height of its grid, and no scroll otherwise; the scroll comes
\* before the update, and the layer, the page and the calls made after the
\* scroll are those of update with the same arguments.
C12_ScrollRows ==
  [][call'.op = "scrollRows" =>
       LET config == call'.args[1]
           viewPortSize == call'.args[2]
           cheap ==
             /\ layer.charRenderCanvas # Null
             /\ LET delta == config.firstRow - Get(layer.lastConfig).firstRow
                    distance == IF delta < 0 THEN 0 - delta ELSE delta
                IN distance < gridHeight(Get(layer.charRenderCanvas))
       IN /\ ~call'.error
          /\ call'.scrolls =
               IF cheap THEN <<config.firstRow - Get(layer.lastConfig).firstRow>>
                        ELSE <<>>
          /\ cheap => Head(call'.steps) = "scrollVertical"
          /\ [layer |-> layer',
              env |-> env',
              call |-> [call' EXCEPT !.op = "update", !.scrolls = <<>>,
                                     !.steps = UpdateSteps(@)]]
               = update(Begin("update", call'.args), config, viewPortSize)]_vars

\* scrollRows has found a canvas and requested no scroll: its grid is no
\* higher than the rows the view moved.
C12_Witness ==
  /\ call.op = "scrollRows"
  /\ call.before.charRenderCanvas # Null
  /\ call.scrolls = <<>>
  /\ call.renders = 1

\* C13 as stated: the layer either has no canvas and no cached config or
\* viewport, or has a canvas and both cached.
C13_TwoStates ==
  \/ ~HasCanvas /\ layer.lastConfig = Null /\ layer.lastViewPortSize = Null
  \/ HasCanvas /\ layer.lastConfig # Null /\ layer.lastViewPortSize # Null

\* C13: the config and the viewport are cached together, and a layer that
\* has a canvas has them cached.  So the layer is in one of three states:
\* no canvas and nothing cached, a canvas and both cached, or (after
\* reduceMemory or an invalidating setter) no canvas and both cached; a
\* canvas with nothing cached is not reachable.
C13_ThreeStates ==
  /\ layer.lastConfig = Null <=> layer.lastViewPortSize = Null
  /\ HasCanvas => layer.lastConfig # Null /\ layer.lastViewPortSize # Null
  /\ layer.lastConfig = Null => env.created = 0

\* reduceMemory has left a layer with no canvas and a cached config and
\* viewport.
C13_Witness ==
  /\ call.op = "reduceMemory"
  /\ call.disposed = 1
  /\ ~HasCanvas
  /\ layer.lastConfig # Null /\ layer.lastViewPortSize # Null

\* C14: mouseOver rerenders only when the URL it resolves differs from
\* the URL hovered before: it then flushes once if the layer has updated
\* (so a position on a link and then null make two flushes), and when the
\* URL is the same (the same position, or null, given again) it flushes
\* nothing and changes nothing.
C14_RerenderOnHoverChange ==
  [][call'.op = "mouseOver" /\ ~call'.error =>
       /\ call'.args[1] = Null => layer'.hoveredURL = Null
       /\ layer'.hoveredURL # layer.hoveredURL =>
            /\ call'.renders = IF layer.lastConfig # Null THEN 1 ELSE 0
            /\ call'.steps = IF layer.lastConfig # Null THEN UpdateOrder ELSE <<>>
       /\ layer'.hoveredURL = layer.hoveredURL =>
            /\ call'.renders = 0 /\ call'.steps = <<>>
            /\ call'.created = 0 /\ call'.disposed = 0
            /\ layer' = layer /\ env' = env]_vars

\* After the pointer was on a link of a layer that has updated,
\* mouseOver(null) has flushed once.
C14_Witness ==
  /\ call.op = "mouseOver"
  /\ call.args[1] = Null
  /\ layer.hoveredURL = Null
  /\ call.renders = 1

\* C15: mouseOver at a position on a line of the document raises no
\* error; when the column is at or past the line's width, or the cell's
\* link id is 0, the hovered URL becomes none, and otherwise it becomes the
\* URL the line has for the cell's link id.
C15_HoverResolution ==
  /\ call.op = "mouseOver"
  /\ call.args[1] # Null
  /\ Get(call.args[1]).row + 1 \in DOMAIN Get(layer.editSession).lines
  => LET pos == Get(call.args[1])
         line == Get(layer.editSession).lines[pos.row + 1]
         pastWidth == pos.column >= Len(line.links)
         linkID == IF pastWidth THEN 0 ELSE line.links[pos.column + 1]
     IN /\ ~call.error
        /\ pastWidth \/ linkID = 0 => layer.hoveredURL = Null
        /\ ~pastWidth /\ linkID # 0 /\ linkID \in DOMAIN line.urls =>
             layer.hoveredURL = Some(line.urls[linkID])

\* The pointer has moved from a link to a column past the end of a line:
\* no URL is hovered and the layer has rerendered.
C15_Witness ==
  /\ call.op = "mouseOver"
  /\ call.args[1] # Null
  /\ Get(call.args[1]).row + 1 \in DOMAIN Get(layer.editSession).lines
  /\ Get(call.args[1]).column
       >= Len(Get(layer.editSession).lines[Get(call.args[1]).row + 1].links)
  /\ layer.hoveredURL = Null
  /\ call.renders = 1
  /\ ~call.error

\* C36: mouseOver at a position whose row has no line in the session, a
\* row past the end of the document, raises no error and leaves no URL
\* hovered.
C36_MissingRowIsNormal ==
  /\ call.op = "mouseOver"
  /\ call.args[1] # Null
  /\ getTerminalLine(Get(layer.editSession), Get(call.args[1]).row) = Null
  => /\ ~call.error
     /\ layer.hoveredURL = Null

\* C16: an update of a layer that holds a canvas and has the same config
\* and viewport cached, as the same update before it left them, creates
\* and disposes nothing and leaves the layer and the page as they were: the
\* same canvas with the same grid, the same clip region, the same cached
\* config and viewport.
C16_UpdateIdempotent ==
  [][/\ call'.op = "update"
     /\ layer.charRenderCanvas # Null
     /\ layer.lastConfig = Some(call'.args[1])
     /\ layer.lastViewPortSize = Some(call'.args[2])
     => /\ call'.created = 0 /\ call'.disposed = 0
        /\ call'.renders = 1
        /\ layer'.charRenderCanvas = layer.charRenderCanvas
        /\ env'.clipStyle = env.clipStyle
        /\ layer' = layer
        /\ env' = env]_vars

\* An update has found the canvas, the config and the viewport that the
\* same update left, and a grid with rows written.
C16_Witness ==
  /\ call.op = "update"
  /\ call.before.charRenderCanvas = layer.charRenderCanvas
  /\ call.created = 0
  /\ canvas.grid # <<>>
  /\ Get(env.clipStyle).width = call.args[2].widthPx

\* C29: when update has returned the layer holds a live canvas, the cached
\* config and viewport are the arguments of the call, and the canvas's
\* allocated CSS width and height are at least the viewport's width and the
\* height of the visible rows of the config, rounded up.
C29_UpdateLeavesReady ==
  call.op \in Updates =>
    LET config == call.args[1]
        viewPortSize == call.args[2]
        rows == Len(getVisibleRows(Get(layer.editSession), config))
    IN /\ ~call.error
       /\ HasCanvas /\ env.live = {canvas.id} /\ env.children = {canvas.id}
       /\ layer.lastConfig = Some(config)
       /\ layer.lastViewPortSize = Some(viewPortSize)
       /\ layer.canvasWidthCssPx >= viewPortSize.widthPx
       /\ layer.canvasHeightCssPx >= Ceil(Times(rows, config.charHeightPx))

\* The first update of a layer has created its canvas, no smaller than the
\* arguments require, and cached the arguments.
C29_Witness ==
  /\ call.op = "update"
  /\ call.before.charRenderCanvas = Null
  /\ env.created = 1
  /\ HasCanvas
  /\ layer.lastConfig = Some(call.args[1])
  /\ layer.canvasWidthCssPx = call.args[2].widthPx
  /\ layer.canvasHeightCssPx > requiredHeightPx

\* C30: whenever a canvas is live a config and a viewport are cached,
\* whatever calls came before; so scrollRows, which reads the first row of
\* the cached config when it finds a canvas, never finds the config missing.
C30_CanvasImpliesCachedConfig ==
  /\ env.live # {} => layer.lastConfig # Null /\ layer.lastViewPortSize # Null
  /\ call.op = "scrollRows" => ~call.error

\* scrollRows to first row 0 has found a canvas, read the first row 1 of
\* the cached config and scrolled back by one row.
C30_Witness ==
  /\ call.op = "scrollRows"
  /\ call.before.charRenderCanvas # Null
  /\ ~call.error
  /\ call.scrolls = <<call.args[1].firstRow - 1>>
  /\ call.scrolls # <<0>>

\* C31: every canvas that is no longer live was detached from the page and
\* then disposed, once: no dispose() met a canvas still in the page or a
\* canvas already disposed, the dispose() calls are as many as the canvases
\* created and no longer live, the canvases in the page are the live ones,
\* the live one is the one the layer holds, and a call that found no canvas
\* disposed none.
C31_DisposedExactlyOnce ==
  /\ env.faults = {}
  /\ env.disposed = Cardinality((1..env.created) \ env.live)
  /\ env.children = env.live
  /\ HasCanvas => env.live = {canvas.id}
  /\ ~HasCanvas => env.live = {}
  /\ call.disposed <= 1
  /\ call.before.charRenderCanvas = Null => call.disposed = 0

\* reduceMemory has disposed the second canvas, after an earlier call
\* disposed the first: both are out of the page and none is live.
C31_Witness ==
  /\ call.op = "reduceMemory"
  /\ call.before.charRenderCanvas # Null
  /\ Get(call.before.charRenderCanvas).id = 2
  /\ call.disposed = 1
  /\ env.created = 2 /\ env.disposed = 2
  /\ env.children = {} /\ env.live = {}
  /\ ~HasCanvas

\* C32: the cached config and viewport are the arguments of the most recent
\* update, updateRows or scrollRows (such a call caches its arguments and no
\* other call changes the cache), and a rerender that finds both cached
\* leaves the layer and the page, and creates, disposes, flushes and calls,
\* as update with the cached config and viewport does from the same state.
C32_RerenderIsUpdate ==
  [][/\ call'.op \in Updates =>
          /\ layer'.lastConfig = Some(call'.args[1])
          /\ layer'.lastViewPortSize = Some(call'.args[2])
     /\ call'.op \notin Updates =>
          /\ layer'.lastConfig = layer.lastConfig
          /\ layer'.lastViewPortSize = layer.lastViewPortSize
     /\ /\ call'.op = "rerender"
        /\ layer.lastConfig # Null /\ layer.lastViewPortSize # Null
        => LET args == <<Get(layer.lastConfig), Get(layer.lastViewPortSize)>>
               u == update(Begin("update", args), args[1], args[2])
           IN /\ layer' = u.layer
              /\ env' = u.env
              /\ call' = [u.call EXCEPT !.op = "rerender", !.args = <<>>]]_vars

\* A rerender found the config of the last update cached and no canvas,
\* the first one being disposed, and has created the second canvas.
C32_Witness ==
  /\ call.op = "rerender"
  /\ call.before.charRenderCanvas = Null
  /\ layer.lastConfig # Null /\ Get(layer.lastConfig).firstRow = 1
  /\ call.created = 1 /\ call.renders = 1
  /\ HasCanvas /\ canvas.id = 2

----------------------------------------------------------------------------
(* The properties of the row resolver, of ResolverSpec.  A state in which
   resolver.pc is "done" holds the rows one call of _getVisibleRows
   returned. *)

ResolverDone == resolver.pc = "done"

\* Row r is hidden by a fold line: it lies after the fold's first row and
\* not after its last.
Hidden(folds, r) ==
  \E i \in DOMAIN folds : folds[i].start < r /\ r <= folds[i].end

\* How many times row r is in the rows returned.
Emitted(r) ==
  Cardinality({ i \in DOMAIN resolver.visibleRows : resolver.visibleRows[i] = r })

\* C17: with no folds the rows returned are firstRow, firstRow + 1, ...,
\* lastRow, lastRow + 1: the rows of the config and the row after them.
C17_NoFolds ==
  ResolverDone /\ resolver.session.folds = <<>> =>
    LET firstRow == resolver.config.firstRow
        lastRow == resolver.config.lastRow
    IN /\ resolver.visibleRows = [i \in 1..(lastRow - firstRow + 2) |-> firstRow + i - 1]
       /\ getVisibleRows(resolver.session, resolver.config) = resolver.visibleRows

\* With no folds, rows 0 to 5 have resolved to 0, 1, 2, 3, 4, 5, 6.
C17_Witness ==
  /\ ResolverDone
  /\ resolver.session.folds = <<>>
  /\ resolver.config.firstRow = 0 /\ resolver.config.lastRow = 5
  /\ resolver.visibleRows = <<0, 1, 2, 3, 4, 5, 6>>

\* C18 as stated: of every fold line that starts at or after firstRow the
\* first row is returned once, no row after it up to the fold's last is
\* returned, and the row after the fold's last is returned.
C18_EveryFoldFromFirstRow ==
  ResolverDone =>
    \A i \in DOMAIN resolver.session.folds :
      LET fold == resolver.session.folds[i]
      IN fold.start >= resolver.config.firstRow =>
           /\ Emitted(fold.start) = 1
           /\ \A r \in fold.start + 1..fold.end : Emitted(r) = 0
           /\ Emitted(fold.end + 1) = 1

\* C18: no row hidden by a fold line is returned.  Of a fold line that
\* starts in firstRow..lastRow + 1 the first row is returned once; if it
\* starts in firstRow..lastRow the row returned next is the row after the
\* fold's last.  The first row of a fold line that starts after
\* lastRow + 1 is returned at most once, and need not be returned.  When a
\* fold line starts at firstRow the first row returned is firstRow.
C18_FoldsInRange ==
  ResolverDone =>
    LET firstRow == resolver.config.firstRow
        lastRow == resolver.config.lastRow
        rows == resolver.visibleRows
    IN /\ \A k \in DOMAIN rows : ~Hidden(resolver.session.folds, rows[k])
       /\ \A i \in DOMAIN resolver.session.folds :
            LET fold == resolver.session.folds[i]
            IN /\ fold.start \in firstRow..lastRow + 1 => Emitted(fold.start) = 1
               /\ fold.start \in firstRow..lastRow =>
                    \E k \in DOMAIN rows :
                      /\ rows[k] = fold.start
                      /\ k + 1 \in DOMAIN rows
                      /\ rows[k + 1] = fold.end + 1
               /\ Emitted(fold.start) <= 1
               /\ fold.start = firstRow => rows[1] = firstRow
       /\ getVisibleRows(resolver.session, resolver.config) = rows

\* With the fold line 2..4, rows 0 to 5 have resolved to 0, 1, 2, 5, 6.
C18_Witness ==
  /\ ResolverDone
  /\ resolver.session.folds = <<[start |-> 2, end |-> 4]>>
  /\ resolver.config.firstRow = 0 /\ resolver.config.lastRow = 5
  /\ resolver.visibleRows = <<0, 1, 2, 5, 6>>

\* C19 as stated: at least lastRow - firstRow + 1 rows are returned.
C19_AtLeastTheRowsOfTheConfig ==
  ResolverDone =>
    Len(resolver.visibleRows)
      >= resolver.config.lastRow - resolver.config.firstRow + 1

\* C19: the rows returned are the rows of firstRow..lastRow that no fold
\* line hides, in increasing order, and one row after lastRow.  So their
\* number is lastRow - firstRow + 2 less the hidden rows of
\* firstRow..lastRow: at least 1, at most lastRow - firstRow + 2, and at
\* least lastRow - firstRow + 1 when no more than one row is hidden.
C19_RowsNotHidden ==
  ResolverDone =>
    LET firstRow == resolver.config.firstRow
        lastRow == resolver.config.lastRow
        rows == resolver.visibleRows
        shown == { r \in firstRow..lastRow : ~Hidden(resolver.session.folds, r) }
        hidden == { r \in firstRow..lastRow : Hidden(resolver.session.folds, r) }
    IN /\ Len(rows) = Cardinality(shown) + 1
       /\ Len(rows) = lastRow - firstRow + 2 - Cardinality(hidden)
       /\ Len(rows) >= 1 /\ Len(rows) <= lastRow - firstRow + 2
       /\ { rows[k] : k \in 1..Len(rows) - 1 } = shown
       /\ rows[Len(rows)] > lastRow
       /\ \A k \in 1..Len(rows) - 1 : rows[k] < rows[k + 1]
       /\ Cardinality(hidden) <= 1 => Len(rows) >= lastRow - firstRow + 1
       /\ getVisibleRows(resolver.session, resolver.config) = rows

\* A fold line has hidden two rows of the config: fewer rows are returned
\* than the config has.
C19_Witness ==
  /\ ResolverDone
  /\ Len(resolver.visibleRows)
       < resolver.config.lastRow - resolver.config.firstRow + 1
  /\ Len(resolver.session.folds) = 1
  /\ resolver.session.folds[1].start >= resolver.config.firstRow
  /\ resolver.session.folds[1].end <= resolver.config.lastRow

\* C20: a call of the row resolver ends: for every firstRow <= lastRow and
\* all fold data (fold lines with end >= start, in increasing order,
\* sharing no row) the loop reaches a row greater than lastRow and breaks.
\* Until then it has returned no more rows than the config has, and every
\* pass moves to a later row.
C20_ResolverTerminates ==
  /\ [](resolver.pc = "loop" =>
          /\ Len(resolver.visibleRows)
               <= resolver.config.lastRow - resolver.config.firstRow + 1
          /\ resolver.row <= resolver.config.lastRow + 1)
  /\ [][resolver'.row > resolver.row \/ resolver'.pc = "done"]_vars
  /\ <>(ResolverDone /\ resolver.row > resolver.config.lastRow)

\* The loop has skipped two fold lines and ended.
C20_Witness ==
  /\ ResolverDone
  /\ Len(resolver.session.folds) = 2
  /\ resolver.session.folds[1].start >= resolver.config.firstRow
  /\ Emitted(resolver.session.folds[1].end + 1) = 1
  /\ Emitted(resolver.session.folds[2].end + 1) = 1
  /\ resolver.session.folds[2].end > resolver.session.folds[2].start

\* C35: the rows the resolver has pushed are strictly increasing and none is
\* less than firstRow; while the loop runs none is greater than lastRow, and
\* when it has ended exactly one is, the last: every other row is one of
\* firstRow..lastRow.
C35_StrictlyIncreasing ==
  resolver.pc \in {"loop", "done"} =>
    LET rows == resolver.visibleRows
        n == Len(rows)
        past == { k \in 1..n : rows[k] > resolver.config.lastRow }
    IN /\ \A k \in 1..(n - 1) : rows[k] < rows[k + 1]
       /\ \A k \in 1..n : rows[k] >= resolver.config.firstRow
       /\ resolver.pc = "loop" => past = {}
       /\ ResolverDone => n >= 1 /\ past = {n}

\* The resolver has returned rows of the config on both sides of a fold
\* line that ends past lastRow: the last row is the one after the fold line,
\* more than one past lastRow.
C35_Witness ==
  /\ ResolverDone
  /\ Len(resolver.visibleRows) >= 3
  /\ Len(resolver.session.folds) = 2
  /\ resolver.session.folds[2].start <= resolver.config.lastRow
  /\ resolver.session.folds[2].end > resolver.config.lastRow
  /\ resolver.visibleRows[Len(resolver.visibleRows)]
       = resolver.session.folds[2].end + 1
  /\ resolver.visibleRows[Len(resolver.visibleRows)] > resolver.config.lastRow + 1

----------------------------------------------------------------------------
(* The properties of the pixel scaler, of ScalerSpec.  A state in which
   scaler.pc is "done" holds the pair one call of
   _computeDevicePixelRatioPair returned. *)

ScalerDone == scaler.pc = "done"

\* C21: for every device pixel ratio p/q in lowest terms and every positive
\* length, the pair the scaler returns has renderLength * q = screenLength * p,
\* so the two lengths are in the ratio exactly, and screenLength >= length.
C21_ExactRatio ==
  ScalerDone =>
    LET p == Norm(scaler.devicePixelRatio).n
        q == Norm(scaler.devicePixelRatio).d
        pair == Get(scaler.pair)
    IN /\ pair.renderLength \in Nat /\ pair.screenLength \in Nat
       /\ pair.renderLength * q = pair.screenLength * p
       /\ pair.screenLength >= scaler.length

\* The scaler has answered a ratio of 8/5 and a length of 7 with 16 render
\* pixels for 10 screen pixels.
C21_Witness ==
  /\ ScalerDone
  /\ scaler.devicePixelRatio = Rat(8, 5) /\ scaler.length = 7
  /\ Get(scaler.pair) = [screenLength |-> 10, renderLength |-> 16]

\* C22: screenLength is the smallest multiple of the ratio's denominator q
\* that is >= length (q divides it and it exceeds length by less than q), and
\* a ratio of 1 gives (length, length).
C22_MinimalScreenLength ==
  ScalerDone =>
    LET q == Norm(scaler.devicePixelRatio).d
        pair == Get(scaler.pair)
    IN /\ pair.screenLength % q = 0
       /\ pair.screenLength - scaler.length \in 0..(q - 1)
       /\ \A l \in scaler.length..(pair.screenLength - 1) : l % q # 0
       /\ scaler.devicePixelRatio = Rat(1, 1) =>
            pair = [screenLength |-> scaler.length, renderLength |-> scaler.length]

\* The scaler has answered a ratio of 3/2 and a length of 7, which is no
\* multiple of 2, with the multiple after it.
C22_Witness ==
  /\ ScalerDone
  /\ scaler.devicePixelRatio = Rat(3, 2) /\ scaler.length = 7
  /\ Get(scaler.pair) = [screenLength |-> 8, renderLength |-> 12]

----------------------------------------------------------------------------
(* The properties of the compositor, of CompositorSpec.  A state in which
   compositor.pc is "written" is the state one call of _writeLinesToGrid
   left: painted[r + 1] is the document row written to row r of the grid. *)

Written == compositor.pc = "written"

\* The line written to row canvasRow of the grid, or null.
paintedLine(canvasRow) ==
  getTerminalLine(compositor.editSession, compositor.painted[canvasRow + 1])

PaintedRows == 0..(Len(compositor.painted) - 1)

GridColumns == 0..(compositor.grid.width - 1)

\* C23: after a line narrower than the grid is written to a row, every cell
\* of the row from the line's width to the grid's is a cleared cell with the
\* default background, whatever the cells held before.
C23_TrailingCellsCleared ==
  Written =>
    \A r \in PaintedRows :
      paintedLine(r) # Null =>
        \A x \in GridColumns :
          x >= lineWidth(Get(paintedLine(r))) =>
            cellAt(compositor.grid, x, r) =
              [ClearedCell EXCEPT !.bg = PALETTE_BG_INDEX]

\* A line one cell wide has been written over a row whose second cell held
\* highlighted text of an earlier call.
C23_Witness ==
  /\ Written
  /\ compositor.grid.width = 2
  /\ paintedLine(0) = Some(LineC)
  /\ ~compositor.found[2].blank /\ compositor.found[2].highlight
  /\ cellAt(compositor.grid, 1, 0).blank
  /\ cellAt(compositor.grid, 1, 0).bg = PALETTE_BG_INDEX

\* C24: a document row the session has no line for raises no error: every
\* cell of its grid row is cleared and the call goes on to the next row.
C24_AbsentRowCleared ==
  Written =>
    \A r \in PaintedRows :
      paintedLine(r) = Null =>
        /\ \A x \in GridColumns : cellAt(compositor.grid, x, r) = ClearedCell
        /\ compositor.error => r + 1 < Len(compositor.painted)
        /\ r + 1 < Len(compositor.rows) /\ r + 1 < compositor.grid.height =>
             r + 1 < Len(compositor.painted)

\* A row past the end of the document has been written over a row that held
\* text, and the row after it has been written too.
C24_Witness ==
  /\ Written /\ ~compositor.error
  /\ compositor.grid.width = 2
  /\ Len(compositor.painted) = 3
  /\ paintedLine(0) # Null
  /\ paintedLine(1) = Null /\ paintedLine(2) = Null
  /\ ~compositor.found[3].blank /\ ~compositor.found[4].blank
  /\ cellAt(compositor.grid, 0, 1) = ClearedCell
  /\ cellAt(compositor.grid, 1, 2) = ClearedCell

\* The rows of the grid a call of _writeLinesToGrid is to write: as many as
\* the resolved rows, and no more than the grid has.
rowsToWrite == Min(Len(compositor.rows), compositor.grid.height)

C34_AccessInsideGrid ==
  Written =>
    /\ compositor.outside = {}
    /\ Len(compositor.painted) <= compositor.grid.height

\* The link id a written line gives the hovered URL, 0 for none.
hoveredLinkID(line) ==
  IF compositor.hoveredURL # Null
    THEN getLinkIDByURL(line, Get(compositor.hoveredURL))
    ELSE 0

\* C25: in the row of a written line that gives the hovered URL the link id
\* L # 0, the cells with the highlight bit are exactly the cells in the
\* columns of the line whose link id is L; when no URL is hovered or the
\* line gives it link id 0, no cell of the row has the bit.
C25_HighlightMatchingCells ==
  Written =>
    \A r \in PaintedRows :
      paintedLine(r) # Null =>
        LET line == Get(paintedLine(r))
            L == hoveredLinkID(line)
        IN \A x \in GridColumns :
             cellAt(compositor.grid, x, r).highlight
               <=> /\ L # 0
                   /\ x < lineWidth(line)
                   /\ cellAt(compositor.grid, x, r).linkID = L

\* With http://a hovered, the line with link ids 0, 1 has been written over
\* a row whose first cell was highlighted: its second cell is highlighted
\* and its first is not.
C25_Witness ==
  /\ Written
  /\ compositor.grid.width = 2
  /\ compositor.hoveredURL = Some("http://a")
  /\ paintedLine(0) = Some(LineA)
  /\ compositor.found[1].highlight
  /\ cellAt(compositor.grid, 1, 0).highlight
  /\ ~cellAt(compositor.grid, 0, 0).highlight

----------------------------------------------------------------------------
(* The properties of the key bindings, of KeybindingsSpec.  A state in
   which keybindings.pc is "returned" holds the event and the result of
   the call of mapEventToCommands that has just returned. *)

\* The key strokes of the list that match the event: the key, as the
\* keybindings file names it and without its case, and the four modifiers.
Matches(mapping, ev) ==
  { i \in DOMAIN mapping.keyStrokeList :
      LET keybinding == mapping.keyStrokeList[i]
      IN /\ keybinding.configKeyLowercase
              = toLowerCase(eventKeyNameToConfigKeyName(eventKey(ev)))
         /\ <<keybinding.altKey, keybinding.ctrlKey, keybinding.shiftKey,
              keybinding.metaKey>>
              = <<ev.altKey, ev.ctrlKey, ev.shiftKey, ev.metaKey>> }

C37_ShiftNotCompared ==
  keybindings.pc = "returned" =>
    LET ev == Get(keybindings.ev)
        shifted == [ev EXCEPT !.shiftKey = ~@]
    IN mapEventToCommands(keybindings, shifted).result = keybindings.result

----------------------------------------------------------------------------
(* The properties of the decorated element, of ElementSpec.  A state in
   which element.op is a method's name is the state that call left. *)

\* The HTML attribute of the decorated field.
htmlAttribute == element.html[element.attrData.attributeName]

\* A filter returned undefined in the call that has just returned.
Rejected ==
  \E i \in DOMAIN element.filtersRun : element.filtersRun[i].returned = Undefined

\* C27: when a filter returns undefined for a value set on the attribute of
\* a constructed element, the value is rejected: the stored value is the one
\* the call found, that filter is the last one run, the HTML attribute is not
\* written and no observer is notified.
C27_RejectedValue ==
  element.constructed /\ Rejected =>
    /\ element.value = element.found
    /\ element.filtersRun[Len(element.filtersRun)].returned = Undefined
    /\ \A i \in 1..(Len(element.filtersRun) - 1) :
         element.filtersRun[i].returned # Undefined
    /\ element.written = <<>>
    /\ htmlAttribute = element.foundHtml
    /\ element.notified = <<>>

\* An element that holds 2 has been set to 0: positive, the first of its two
\* filters, has rejected the value and its observer has not been called.
C27_Witness ==
  /\ element.op = "set" /\ element.constructed
  /\ element.attrData.filters = <<"positive", "clamp">>
  /\ element.attrData.observers # <<>>
  /\ element.newRawValue = Num(0)
  /\ element.found = Num(1) /\ element.foundHtml = Some("1")
  /\ element.filtersRun = <<filterCall("positive", Num(0))>>
  /\ element.value = Num(1)

\* C28: after a constructed element's attribute is set to v and its filters
\* have turned v into w # v, the field holds w and the HTML attribute the
\* call has written holds v.
C28_FilterLeavesHtmlAttribute ==
  /\ element.constructed /\ element.op \in {"set", "setAttribute"}
  /\ element.filtersRun # <<>> /\ ~Rejected
  /\ element.written # <<>>
  => LET v == element.filtersRun[1].value
         w == element.filtersRun[Len(element.filtersRun)].returned
     IN w # v => element.value = w /\ htmlAttribute = Some(toString(v))

----------------------------------------------------------------------------
(* The properties of the list picker, of PickerSpec.  picker.op is the step
   that led to the state. *)

\* The id a step asks to select in the picker it finds, or no request.
requests(p, op) ==
  IF op.name = "handleDialogClose" THEN Some(Null)
  ELSE IF op.name = "handleResultClick" /\ op.path # <<>> THEN Some(Some(Head(op.path)))
  ELSE IF op.name = "handleKeyDown" /\ op.key = "Escape" THEN Some(Null)
  ELSE IF /\ op.name = "handleKeyDown" /\ op.key = "Enter"
          /\ filterEntries(p.entries) # <<>> /\ p.selected # Null
    THEN Some(p.selected)
  ELSE Null

\* C38: at most one deferred dispatch is pending, and the handle is set
\* exactly while one is; a step other than the dispatch while one is pending,
\* a selection request by Escape, Enter, a click or the dialog's close
\* request included, leaves the pending dispatch, its id and the events
\* dispatched as they were; the dispatch closes the dialog, clears the
\* handle and dispatches one 'selected' event with the id of the request
\* that scheduled it; and a request that finds none pending schedules one
\* with its id.
C38_OnePendingDispatch ==
  /\ [](/\ Len(picker.later) <= 1
        /\ picker.laterHandle # Null <=> picker.later # <<>>)
  /\ [][/\ picker.later # <<>> /\ picker'.op.name # "later" =>
             /\ picker'.later = picker.later
             /\ picker'.laterHandle = picker.laterHandle
             /\ picker'.events = picker.events
        /\ picker'.op.name = "later" =>
             /\ picker.later # <<>>
             /\ picker'.events = Append(picker.events, Head(picker.later))
             /\ picker'.later = <<>> /\ picker'.laterHandle = Null
             /\ ~picker'.dialogOpen
        /\ picker.later = <<>> /\ requests(picker, picker'.op) # Null =>
             /\ picker'.later = <<Get(requests(picker, picker'.op))>>
             /\ picker'.events = picker.events]_vars

\* After the dispatch of an Escape, a second dispatch is pending for the
\* entry y, and the dialog's close request has just been ignored as a
\* request: the dialog is closed and the pending id is still y.
C38_Witness ==
  /\ picker.op.name = "handleDialogClose"
  /\ picker.events = <<Null>>
  /\ picker.later = <<Some("y")>>
  /\ picker.laterHandle # Null
  /\ ~picker.dialogOpen

====
